---- MODULE Spec2Model ----
(***************************************************************************)
(* State-machine model of the curation pipelines of spotify-mcp            *)
(* (src/src/spotify_mcp/server.py, handle_call_tool) and of the Client     *)
(* helpers they call (src/src/spotify_mcp/spotify_api.py).                 *)
(*                                                                         *)
(* Every pipeline is one invocation of handle_call_tool.  The catalog      *)
(* service (spotipy) is the environment: each of its answers is chosen     *)
(* with \E from a small set, and every call may raise.                     *)
(*                                                                         *)
(* Python strings on which the code computes (lower(), startswith(), `in`, *)
(* split(), <) are sequences of one-character strings, so that these       *)
(* operations are computed and not assumed.                                *)
(***************************************************************************)
EXTENDS Integers, Sequences, FiniteSets, TLC

VARIABLES
    tool,                \* name[7:], the case of the match statement
    pc,                  \* position inside the handler
    result,              \* what handle_call_tool returns
    calls,               \* collaborator calls issued so far, in order
    playlists,           \* the catalog service's playlists created/changed
    \* ---- ArtistDeepDive locals
    albums, album_idx, all_tracks, unique_tracks,
    best_of_tracks, deep_cuts, chronological, deep_cuts_threshold,
    \* ---- Discover arguments and locals
    seed_type, seed_value, limit, create_playlist_flag,
    seed_genres, seed_popularity, exclude_ids,
    recommendations, seen_track_ids, artist_track_counts,
    genre_idx, matching_artists, artist_idx,
    \* ---- PlaylistLibrarian arguments and locals
    dry_run, style, owned, playlist_idx, changes, category_counts, skipped,
    all_genres, best_category, best_score,
    \* ---- MyTopMusic arguments and locals
    time_range, top_count_arg, top_count, create_playlist, my_top_tracks, my_top_artists,
    \* ---- Playback, Queue, Playlist, Library: the arguments dict
    arguments,
    \* ---- Client helpers: batch lookup (the id list, the loop index i, what
    \*      was gathered) and pagination (offset, limit, the items so far)
    id_list, batch_start, gathered,
    offset, page_limit, fetched,
    \* ---- a tool called again: which call this is, and the playlists the
    \*      first call gave a new name
    invocation, first_renamed

commonVars == <<tool, pc, result, calls, playlists>>
ddVars == <<albums, album_idx, all_tracks, unique_tracks,
            best_of_tracks, deep_cuts, chronological, deep_cuts_threshold>>
discVars == <<seed_type, seed_value, limit, create_playlist_flag,
              seed_genres, seed_popularity, exclude_ids,
              recommendations, seen_track_ids, artist_track_counts,
              genre_idx, matching_artists, artist_idx>>
libVars == <<dry_run, style, owned, playlist_idx, changes, category_counts,
             skipped, all_genres, best_category, best_score>>
topVars == <<time_range, top_count_arg, top_count, create_playlist,
             my_top_tracks, my_top_artists>>
actVars == <<arguments>>
clientVars == <<id_list, batch_start, gathered, offset, page_limit, fetched>>
runVars == <<invocation, first_renamed>>
vars == <<commonVars, ddVars, discVars, libVars, topVars, actVars, clientVars, runVars>>
\* what ArtistDeepDive, Discover, PlaylistLibrarian, MyTopMusic and the action
\* tools leave alone
nonDD == <<discVars, libVars, topVars, actVars, clientVars, runVars>>
nonDisc == <<ddVars, libVars, topVars, actVars, clientVars, runVars>>
nonLib == <<ddVars, discVars, topVars, actVars, clientVars, runVars>>
nonTop == <<ddVars, discVars, libVars, actVars, clientVars, runVars>>
nonAct == <<ddVars, discVars, libVars, topVars, clientVars, runVars>>
nonClient == <<ddVars, discVars, libVars, topVars, actVars, runVars>>

(***************************************************************************)
(* Python values                                                           *)
(***************************************************************************)
UpperChars == <<"A","B","C","D","E","F","G","H","I","J","K","L","M",
                "N","O","P","Q","R","S","T","U","V","W","X","Y","Z">>
LowerChars == <<"a","b","c","d","e","f","g","h","i","j","k","l","m",
                "n","o","p","q","r","s","t","u","v","w","x","y","z">>

\* str.lower() on one character
LowerChar(c) ==
    IF \E i \in 1..Len(UpperChars) : UpperChars[i] = c
    THEN LowerChars[CHOOSE i \in 1..Len(UpperChars) : UpperChars[i] = c]
    ELSE c

\* str.lower()
Lower(s) == [i \in 1..Len(s) |-> LowerChar(s[i])]

\* ord() of the characters release dates are made of
DateChars == <<"-", "0", "1", "2", "3", "4", "5", "6", "7", "8", "9">>
Ord(c) == CHOOSE i \in 1..Len(DateChars) : DateChars[i] = c

\* Python's str < str: lexicographic by code point, a proper prefix is smaller
StrLess(a, b) ==
    LET m == IF Len(a) < Len(b) THEN Len(a) ELSE Len(b)
        differ == {i \in 1..m : a[i] # b[i]}
    IN  IF differ = {} THEN Len(a) < Len(b)
        ELSE LET k == CHOOSE i \in differ : \A j \in differ : i <= j
             IN  Ord(a[k]) < Ord(b[k])

\* A function on 1..n written out as a tuple (the same value, held as a list)
AsList(f) == SubSeq(f, 1, Len(f))

\* sorted(s, key=...) with integer keys, key[i] the key of s[i]: ascending, and
\* stable as Python's sort is (equal keys keep their order).  reverse=True keeps
\* the order of equal keys too, so it is the ascending sort on the negated keys.
StableSort(s, key) ==
    LET n == Len(s)
        rank == AsList([i \in 1..n |->
                    Cardinality({j \in 1..n :
                        \/ key[j] < key[i]
                        \/ key[j] = key[i] /\ j < i}) + 1])
    IN  AsList([k \in 1..n |-> s[CHOOSE i \in 1..n : rank[i] = k]])

\* s[:n] for n >= 0
Take(s, n) == SubSeq(s, 1, IF n < Len(s) THEN n ELSE Len(s))

\* [s[i] for i in range(len(s)) if i in kept]: the kept elements, in their order
Select(s, kept) ==
    LET pos == AsList([i \in 1..Len(s) |-> Cardinality({j \in kept : j <= i})])
    IN  AsList([k \in 1..Cardinality(kept) |-> s[CHOOSE i \in kept : pos[i] = k]])

Range(s) == {s[i] : i \in 1..Len(s)}

\* dict.get(key, default) on a catalog object whose field may be absent
GetPopularity(obj, default) ==
    IF obj.has_popularity THEN obj.popularity ELSE default

\* An insertion-ordered dict as a sequence of [key, value]
DictIndex(d, key) ==
    IF \E i \in 1..Len(d) : d[i].key = key
    THEN CHOOSE i \in 1..Len(d) : d[i].key = key
    ELSE 0
DictSet(d, key, value) ==
    IF DictIndex(d, key) = 0
    THEN Append(d, [key |-> key, value |-> value])
    ELSE [d EXCEPT ![DictIndex(d, key)].value = value]
DictValues(d) == AsList([i \in 1..Len(d) |-> d[i].value])

(***************************************************************************)
(* ArtistDeepDive, step 4: deduplicate by track name                       *)
(***************************************************************************)
\* key = track['name'].lower()
DedupeKey(track) == Lower(track.name)

\* track['popularity'] > seen[key]['popularity']
DedupeReplaces_GE(track, kept) == track.popularity >= kept.popularity
DedupeReplaces_LT(track, kept) == track.popularity < kept.popularity
DedupeReplaces(track, kept) == track.popularity > kept.popularity

\* the body of `for track in all_tracks`
DedupeStep(seen, track) ==
    LET key == DedupeKey(track)
        at == DictIndex(seen, key)
    IN  IF at = 0 \/ DedupeReplaces(track, seen[at].value)
        THEN DictSet(seen, key, track)
        ELSE seen

\* the loop over tracks[lo..hi], left to right, starting from `seen`.  The range
\* is split in halves, and the left half is evaluated first (Len(left) >= 0
\* always holds), only to keep the evaluation shallow.
RECURSIVE DedupeFrom(_, _, _, _)
DedupeFrom(tracks, lo, hi, seen) ==
    IF lo > hi THEN seen
    ELSE IF lo = hi THEN DedupeStep(seen, tracks[lo])
    ELSE LET mid == (lo + hi) \div 2
             left == DedupeFrom(tracks, lo, mid, seen)
         IN  IF Len(left) >= 0 THEN DedupeFrom(tracks, mid + 1, hi, left) ELSE left

\* unique_tracks = list(seen.values())
Dedupe(tracks) == DictValues(DedupeFrom(tracks, 1, Len(tracks), <<>>))

(***************************************************************************)
(* The catalog service as seen by ArtistDeepDive                           *)
(***************************************************************************)
MaxAlbums == 2           \* albums get_artist_albums returns at most

BestOfLimit == 20        \* sorted(...)[:20]
DeepCutsLimit == 25      \* sorted(...)[:25]
AddChunk == 100          \* range(0, len(track_ids), 100)
DefaultThreshold == 40   \* arguments.get("deep_cuts_max_popularity", 40)

\* release dates come in the precisions the catalog uses: "2014", "2015", "2015-03"
Date2014 == <<"2", "0", "1", "4">>
Date2015 == <<"2", "0", "1", "5">>
Date2015_03 == <<"2", "0", "1", "5", "-", "0", "3">>

\* sp.track(id): the full track, whose popularity may be missing
FullTrack(p) == [has_popularity |-> TRUE, popularity |-> p]
NoPopularity == [has_popularity |-> FALSE, popularity |-> 0]

T(name, full) == [name |-> name, full |-> full]

\* sp.album(id) answers: tracks.items (each with what sp.track answers for it),
\* release_date and album_type
AlbumSamples ==
    { [tracks |-> <<>>, release_date |-> Date2015, album_type |-> "album"],
      [tracks |-> <<T(<<"A", "b">>, FullTrack(50)), T(<<"C">>, FullTrack(10))>>,
       release_date |-> Date2015, album_type |-> "album"],
      [tracks |-> <<T(<<"a", "B">>, FullTrack(50))>>,
       release_date |-> Date2014, album_type |-> "single"],
      [tracks |-> <<T(<<"a", "b">>, FullTrack(70)), T(<<"D">>, NoPopularity)>>,
       release_date |-> Date2015_03, album_type |-> "album"],
      [tracks |-> <<T(<<"c">>, FullTrack(10))>>,
       release_date |-> Date2014, album_type |-> "album"],
      \* a popularity outside the range 0..100 the service documents
      [tracks |-> <<T(<<"E">>, FullTrack(120))>>,
       release_date |-> Date2014, album_type |-> "album"] }

\* A long album, to reach the limits 20, 25 and 100 of steps 5-7: n tracks with
\* distinct names "t001".."tnnn" and popularities spread over 0..59.  It is
\* answered for an artist whose only album it is.
Digit(d) == DateChars[d + 2]
BulkName(i) == <<"t", Digit(i \div 100), Digit((i \div 10) % 10), Digit(i % 10)>>
BulkPopularity(i) == (i * 7) % 60
BulkAlbum(n) ==
    [tracks |-> [i \in 1..n |-> T(BulkName(i), FullTrack(BulkPopularity(i)))],
     release_date |-> Date2015, album_type |-> "album"]
BulkSizes == {BestOfLimit + 2, BestOfLimit + DeepCutsLimit + 2, AddChunk + 1}

\* where sp.track may raise inside an album of n tracks (0: nowhere)
FailPoints(n) == {k \in 0..n : k <= 2 \/ k = n}

Thresholds == {10, DefaultThreshold, 101}

Call(op) == [op |-> op]
\* a call that raised instead of answering
Raised(op) == [op |-> op, raised |-> TRUE]

(***************************************************************************)
(* Client.create_playlist / Client.add_tracks_to_playlist                  *)
(***************************************************************************)
\* sp.user_playlist_create succeeded: the service holds one more playlist
CreatePlaylist(pls, name) ==
    Append(pls, [id |-> Len(pls) + 1, name |-> name, tracks |-> <<>>])

\* sp.playlist_add_items: an exception is caught and logged, nothing is raised
AddTracks(pls, id, track_ids, accepted) ==
    IF accepted THEN [pls EXCEPT ![id].tracks = @ \o track_ids] ELSE pls

AddCall(id, track_ids) ==
    [op |-> "add_tracks_to_playlist", playlist_id |-> id, track_ids |-> track_ids]

Ids(tracks) == AsList([i \in 1..Len(tracks) |-> tracks[i].id])

ErrorResult == [kind |-> "error"]
TextResult(text) == [kind |-> "text", text |-> text]
NoResult == [kind |-> "none"]

\* the locals of a tool that is not the one called
DiscoverIdle ==
    /\ seed_type = "" /\ seed_value = "" /\ limit = 0 /\ create_playlist_flag = FALSE
    /\ seed_genres = <<>> /\ seed_popularity = 0 /\ exclude_ids = {}
    /\ recommendations = <<>> /\ seen_track_ids = {} /\ artist_track_counts = <<>>
    /\ genre_idx = 1 /\ matching_artists = <<>> /\ artist_idx = 1

NoCategory == <<>>       \* best_category = None (a label is never empty)

NoArguments == [action |-> ""]

TopMusicIdle ==
    /\ time_range = "" /\ top_count_arg = [numeric |-> TRUE, value |-> 0]
    /\ top_count = 0 /\ create_playlist = FALSE
    /\ my_top_tracks = <<>> /\ my_top_artists = <<>>

ActionIdle == arguments = NoArguments

DefaultPageLimit == 50   \* limit: int = 50

FirstCall == invocation = 1 /\ first_renamed = {}

ClientIdle ==
    /\ id_list = <<>> /\ batch_start = 0 /\ gathered = <<>>
    /\ offset = 0 /\ page_limit = DefaultPageLimit /\ fetched = <<>>

LibrarianIdle ==
    /\ dry_run = TRUE /\ style = "emoji" /\ owned = <<>> /\ playlist_idx = 1
    /\ changes = <<>> /\ category_counts = <<>> /\ skipped = 0
    /\ all_genres = <<>> /\ best_category = NoCategory /\ best_score = 0

(***************************************************************************)
(* ArtistDeepDive (server.py 472-568)                                      *)
(***************************************************************************)
\* 1. spotify_client.search(artist_name, qtype="artist", limit=1)
DD_Search ==
    /\ tool = "ArtistDeepDive" /\ pc = "search"
    /\ \/ /\ calls' = Append(calls, Raised("search"))
          /\ pc' = "done" /\ result' = ErrorResult
       \/ /\ calls' = Append(calls, Call("search"))
          /\ \/ pc' = "done" /\ result' = TextResult("artist_not_found") \* no hit
             \/ pc' = "albums" /\ result' = result
    /\ UNCHANGED <<nonDD, tool, playlists, ddVars>>

\* 2. albums = spotify_client.get_artist_albums(artist_id, include_singles)
DD_GetAlbums ==
    /\ tool = "ArtistDeepDive" /\ pc = "albums"
    /\ \/ /\ calls' = Append(calls, Raised("get_artist_albums"))
          /\ pc' = "done" /\ result' = ErrorResult /\ albums' = albums
       \/ /\ calls' = Append(calls, Call("get_artist_albums"))
          /\ \E n \in 0..MaxAlbums :
                albums' = [i \in 1..n |-> [id |-> i, name |-> "LP"]]
          /\ pc' = "collect" /\ result' = result
    /\ UNCHANGED <<nonDD, tool, playlists, album_idx, all_tracks, unique_tracks,
                   best_of_tracks, deep_cuts, chronological, deep_cuts_threshold>>

\* the records appended for the first n tracks of an album
Collected(album, answer, n) ==
    [j \in 1..n |->
        [id |-> <<album.id, j>>,
         name |-> answer.tracks[j].name,
         popularity |-> GetPopularity(answer.tracks[j].full, 0),
         release_date |-> answer.release_date,
         album_type |-> answer.album_type,
         album_name |-> album.name]]

TrackCalls(album, n) == [j \in 1..n |-> [op |-> "get_track", id |-> <<album.id, j>>]]
\* the get_track calls of an album when the fail-th one raises (0: none does)
TrackCallsUntil(album, asked, fail) ==
    IF fail = 0 THEN TrackCalls(album, asked)
    ELSE TrackCalls(album, asked - 1)
            \o <<[op |-> "get_track", id |-> <<album.id, asked>>, raised |-> TRUE]>>

\* `except Exception: ... continue`: the loop goes on to the next album
AfterAlbum_Aborts(failed) ==
    IF failed
    THEN pc' = "done" /\ result' = ErrorResult /\ album_idx' = album_idx
    ELSE pc' = pc /\ result' = result /\ album_idx' = album_idx + 1

AfterAlbum(failed) ==
    pc' = pc /\ result' = result /\ album_idx' = album_idx + 1

\* 3. one iteration of `for album in albums`, inside try/except Exception
DD_Album ==
    /\ tool = "ArtistDeepDive" /\ pc = "collect" /\ album_idx <= Len(albums)
    /\ LET album == albums[album_idx] IN
       \/ \* get_album_tracks_full raises: the album is skipped
          /\ all_tracks' = all_tracks
          /\ calls' = Append(calls, Raised("get_album_tracks_full"))
          /\ AfterAlbum(TRUE)
       \/ \E answer \in AlbumSamples \cup
                        (IF Len(albums) = 1 THEN {BulkAlbum(n) : n \in BulkSizes}
                         ELSE {}) :
          \E fail \in FailPoints(Len(answer.tracks)) :
            \* fail = 0: every get_track answers; else the fail-th one raises
            LET n == IF fail = 0 THEN Len(answer.tracks) ELSE fail - 1
                asked == IF fail = 0 THEN Len(answer.tracks) ELSE fail
            IN  /\ all_tracks' = all_tracks \o Collected(album, answer, n)
                /\ calls' = Append(calls, Call("get_album_tracks_full"))
                                \o TrackCallsUntil(album, asked, fail)
                /\ AfterAlbum(fail # 0)
    /\ UNCHANGED <<nonDD, tool, playlists, albums, unique_tracks,
                   best_of_tracks, deep_cuts, chronological, deep_cuts_threshold>>

\* 4. deduplicate by track name
DD_Dedupe ==
    /\ tool = "ArtistDeepDive" /\ pc = "collect" /\ album_idx > Len(albums)
    /\ unique_tracks' = Dedupe(all_tracks)
    /\ pc' = "best_of"
    /\ UNCHANGED <<nonDD, tool, result, calls, playlists, albums, album_idx, all_tracks,
                   best_of_tracks, deep_cuts, chronological, deep_cuts_threshold>>

\* sorted(unique_tracks, key=lambda x: x['popularity'], reverse=True)[:20]
PopularityKeys(tracks) == AsList([i \in 1..Len(tracks) |-> tracks[i].popularity])
NegPopularityKeys(tracks) == AsList([i \in 1..Len(tracks) |-> 0 - tracks[i].popularity])
BestOf(tracks) == Take(StableSort(tracks, NegPopularityKeys(tracks)), BestOfLimit)

\* the filter of step 6
IsDeepCut_NoBestOfTest(t, best_of_ids, threshold) ==
    /\ t.popularity < threshold
    /\ t.album_type = "album"
IsDeepCut(t, best_of_ids, threshold) ==
    /\ t.popularity < threshold
    /\ t.id \notin best_of_ids
    /\ t.album_type = "album"

DeepCuts_Unsorted(tracks, best_of_ids, threshold) ==
    Take(Select(tracks, {i \in 1..Len(tracks) :
                           IsDeepCut(tracks[i], best_of_ids, threshold)}),
         DeepCutsLimit)

\* sorted([t for t in unique_tracks if ...], key=lambda x: x['popularity'])[:25]
DeepCuts(tracks, best_of_ids, threshold) ==
    LET kept == Select(tracks, {i \in 1..Len(tracks) :
                                   IsDeepCut(tracks[i], best_of_ids, threshold)})
    IN  Take(StableSort(kept, PopularityKeys(kept)), DeepCutsLimit)

\* sorted(unique_tracks, key=lambda x: x['release_date']): the keys are strings;
\* a date's integer key is the number of distinct dates of the list below it
ReleaseKeys(tracks) ==
    LET dates == {tracks[i].release_date : i \in 1..Len(tracks)}
    IN  AsList([i \in 1..Len(tracks) |->
            Cardinality({d \in dates : StrLess(d, tracks[i].release_date)})])
Chronological(tracks) == StableSort(tracks, ReleaseKeys(tracks))

\* track_ids[i:i+100] for i in range(0, len(track_ids), 100)
ChunkCount(n, size) == (n + size - 1) \div size
Chunks_Overlapping(ids, size) ==
    [k \in 1..ChunkCount(Len(ids), size) |->
        SubSeq(ids, IF k = 1 THEN 1 ELSE (k - 1) * size,
               IF k * size < Len(ids) THEN k * size ELSE Len(ids))]
Chunks(ids, size) ==
    [k \in 1..ChunkCount(Len(ids), size) |->
        SubSeq(ids, (k - 1) * size + 1,
               IF k * size < Len(ids) THEN k * size ELSE Len(ids))]

\* 5. "Best of": create_playlist, then add_tracks_to_playlist if there are tracks
DD_BestOf ==
    /\ tool = "ArtistDeepDive" /\ pc = "best_of"
    /\ best_of_tracks' = BestOf(unique_tracks)
    /\ \/ \* create_playlist raises: the handler's except returns the failure
          /\ calls' = Append(calls, Raised("create_playlist"))
          /\ playlists' = playlists
          /\ pc' = "done" /\ result' = ErrorResult
       \/ /\ best_of_tracks' = <<>>
          /\ calls' = Append(calls, Call("create_playlist"))
          /\ playlists' = CreatePlaylist(playlists, "Best of")
          /\ pc' = "deep_cuts" /\ result' = result
       \/ /\ best_of_tracks' # <<>>
          /\ \E accepted \in BOOLEAN :
                playlists' = AddTracks(CreatePlaylist(playlists, "Best of"),
                                       Len(playlists) + 1, Ids(best_of_tracks'),
                                       accepted)
          /\ calls' = calls \o <<Call("create_playlist"),
                                 AddCall(Len(playlists) + 1, Ids(best_of_tracks'))>>
          /\ pc' = "deep_cuts" /\ result' = result
    /\ UNCHANGED <<nonDD, tool, albums, album_idx, all_tracks, unique_tracks,
                   deep_cuts, chronological, deep_cuts_threshold>>

\* 6. "Deep Cuts"
DD_DeepCuts ==
    /\ tool = "ArtistDeepDive" /\ pc = "deep_cuts"
    /\ deep_cuts' = DeepCuts(unique_tracks, Range(Ids(best_of_tracks)),
                             deep_cuts_threshold)
    /\ \/ /\ calls' = Append(calls, Raised("create_playlist"))
          /\ playlists' = playlists
          /\ pc' = "done" /\ result' = ErrorResult
       \/ /\ deep_cuts' = <<>>
          /\ calls' = Append(calls, Call("create_playlist"))
          /\ playlists' = CreatePlaylist(playlists, "Deep Cuts")
          /\ pc' = "chrono" /\ result' = result
       \/ /\ deep_cuts' # <<>>
          /\ \E accepted \in BOOLEAN :
                playlists' = AddTracks(CreatePlaylist(playlists, "Deep Cuts"),
                                       Len(playlists) + 1, Ids(deep_cuts'), accepted)
          /\ calls' = calls \o <<Call("create_playlist"),
                                 AddCall(Len(playlists) + 1, Ids(deep_cuts'))>>
          /\ pc' = "chrono" /\ result' = result
    /\ UNCHANGED <<nonDD, tool, albums, album_idx, all_tracks, unique_tracks,
                   best_of_tracks, chronological, deep_cuts_threshold>>

\* all chunks added in order, each accepted or not by the service
RECURSIVE AddChunks(_, _, _, _, _)
AddChunks(pls, id, chunks, accepted, k) ==
    IF k > Len(chunks) THEN pls
    ELSE AddChunks(AddTracks(pls, id, chunks[k], accepted[k]), id, chunks,
                   accepted, k + 1)

DeepDiveResult(pls, best, deep, chrono, nAlbums, nUnique) ==
    [kind |-> "json",
     playlists_created |->
        << [id |-> pls[Len(pls) - 2].id, track_count |-> Len(best)],
           [id |-> pls[Len(pls) - 1].id, track_count |-> Len(deep)],
           [id |-> pls[Len(pls)].id, track_count |-> Len(chrono)] >>,
     stats |-> [total_albums_analyzed |-> nAlbums,
                total_tracks_analyzed |-> nUnique]]

\* 7. "Through the Years", added in chunks of 100, and the result
DD_Chrono ==
    /\ tool = "ArtistDeepDive" /\ pc = "chrono"
    /\ chronological' = Chronological(unique_tracks)
    /\ pc' = "done"
    /\ \/ /\ calls' = Append(calls, Raised("create_playlist"))
          /\ playlists' = playlists
          /\ result' = ErrorResult
       \/ LET id == Len(playlists) + 1
              chunks == Chunks(Ids(chronological'), AddChunk)
          IN  /\ \E accepted \in [1..Len(chunks) -> BOOLEAN] :
                    playlists' = AddChunks(CreatePlaylist(playlists, "Through the Years"),
                                           id, chunks, accepted, 1)
              /\ calls' = Append(calls, Call("create_playlist"))
                            \o [k \in 1..Len(chunks) |-> AddCall(id, chunks[k])]
              /\ result' = DeepDiveResult(playlists', best_of_tracks, deep_cuts,
                                          chronological', Len(albums),
                                          Len(unique_tracks))
    /\ UNCHANGED <<nonDD, tool, albums, album_idx, all_tracks, unique_tracks,
                   best_of_tracks, deep_cuts, deep_cuts_threshold>>

InitDeepDive ==
    /\ tool = "ArtistDeepDive" /\ pc = "search"
    /\ result = NoResult /\ calls = <<>> /\ playlists = <<>>
    /\ albums = <<>> /\ album_idx = 1 /\ all_tracks = <<>> /\ unique_tracks = <<>>
    /\ best_of_tracks = <<>> /\ deep_cuts = <<>> /\ chronological = <<>>
    /\ deep_cuts_threshold \in Thresholds
    /\ DiscoverIdle /\ LibrarianIdle
    /\ TopMusicIdle /\ ActionIdle /\ ClientIdle /\ FirstCall

NextDeepDive ==
    \/ DD_Search \/ DD_GetAlbums \/ DD_Album \/ DD_Dedupe
    \/ DD_BestOf \/ DD_DeepCuts \/ DD_Chrono

SpecDeepDive == InitDeepDive /\ [][NextDeepDive]_vars

(***************************************************************************)
(* Step 4 on every short collected list: the handler at line 513, with     *)
(* all_tracks any list of at most MaxDedupeLen tracks                      *)
(***************************************************************************)
MaxDedupeLen == 3

DedupeNames == {<<"A", "b">>, <<"a", "B">>, <<"a", "b">>, <<"C">>}
DedupePopularities == {0, 50, 70}
DedupeInputs ==
    UNION {[1..n -> DedupeNames \X DedupePopularities] : n \in 0..MaxDedupeLen}

InitDedupe ==
    /\ tool = "ArtistDeepDive" /\ pc = "collect"
    /\ result = NoResult /\ calls = <<>> /\ playlists = <<>>
    /\ albums = <<>> /\ album_idx = 1
    /\ \E in \in DedupeInputs :
         all_tracks = [i \in 1..Len(in) |->
                          [id |-> <<1, i>>, name |-> in[i][1],
                           popularity |-> in[i][2], release_date |-> Date2015,
                           album_type |-> "album", album_name |-> "LP"]]
    /\ unique_tracks = <<>>
    /\ best_of_tracks = <<>> /\ deep_cuts = <<>> /\ chronological = <<>>
    /\ deep_cuts_threshold = DefaultThreshold
    /\ DiscoverIdle /\ LibrarianIdle
    /\ TopMusicIdle /\ ActionIdle /\ ClientIdle /\ FirstCall

NextDedupe == DD_Dedupe

SpecDedupe == InitDedupe /\ [][NextDedupe]_vars

(***************************************************************************)
(* The catalog service as seen by Discover                                 *)
(***************************************************************************)
GenreLimit == 3          \* genres[:3]
ArtistCap == 3           \* artist_track_counts.get(artist_id, 0) >= 3
MatchLimit == 5          \* matching_artists[:5]
TopTrackLimit == 3       \* top_tracks[:3]
DefaultSeedPopularity == 50
DefaultLimit == 30       \* arguments.get("limit", 30)
MaxLimit == 50           \* min(..., 50)

\* track objects of the catalog: id, name, artists (possibly none), popularity
\* (possibly missing)
Artist(id) == [id |-> id, name |-> id]
Track(id, artists, full) ==
    [id |-> id, name |-> id, artists |-> artists,
     has_popularity |-> full.has_popularity, popularity |-> full.popularity]
CatalogTracks ==
    [t1 |-> Track("t1", <<Artist("a1")>>, FullTrack(40)),
     t2 |-> Track("t2", <<Artist("a1")>>, FullTrack(60)),
     t3 |-> Track("t3", <<Artist("a1"), Artist("a2")>>, FullTrack(50)),
     t4 |-> Track("t4", <<Artist("a1")>>, NoPopularity),
     t5 |-> Track("t5", <<Artist("a2")>>, FullTrack(60)),
     t6 |-> Track("t6", <<>>, FullTrack(100))]
ArtistIds == {"a1", "a2"}
Tracks(ids) == AsList([i \in 1..Len(ids) |-> CatalogTracks[ids[i]]])

\* answers of search_by_genre(genre, year_range, limit=20)
SearchSamples ==
    { <<"t1", "t2">>,
      <<"t2", "t3", "t4", "t5">>,
      <<"t4", "t3", "t2", "t1", "t6", "t6">>,
      <<"t5", "t1">> }

\* artist_details.get('genres', []) of the seed artist
GenreSamples ==
    { <<>>, <<"indie rock">>, <<"indie rock", "electropop">>,
      <<"electropop", "shoegaze", "indie rock", "dream pop">> }

\* answers of get_top_artists(time_range="medium_term", limit=...)
TopArtist(id, genres) == [id |-> id, name |-> id, genres |-> genres]
TopArtistSamples ==
    { <<>>,
      <<TopArtist("a1", <<"indie rock", "shoegaze">>),
        TopArtist("a9", <<"jazz">>),
        TopArtist("a2", <<"electropop", "indie rock">>)>> }

\* answers of get_artist_top_tracks(artist_id)
TopTrackSamples ==
    { <<"t6">>, <<"t1", "t3", "t5", "t2">> }

\* answers of get_recent_track_ids(limit=50) and get_user_saved_track_ids(limit=100)
RecentSamples == { {}, {"t1"} }
SavedSamples == { {"t2", "t6"} }

\* the seed track's popularity: track.get('popularity', 50)
SeedTrackSamples == { NoPopularity, FullTrack(60) }

SeedTypes == {"artist", "track", "listening_history", "mood"}
SeedValues == {"", "given"}               \* None or empty, or a name / URI
LimitArgs == {DefaultLimit, 2, 0, -1, 60}

IdCall(op, ids) == [op |-> op, ids |-> ids]

(***************************************************************************)
(* Discover (server.py 766-948)                                            *)
(***************************************************************************)
\* Validate inputs
D_Validate ==
    /\ tool = "Discover" /\ pc = "validate"
    /\ IF seed_type \notin {"artist", "track", "listening_history"}
       THEN pc' = "done" /\ result' = TextResult("invalid_seed_type")
       ELSE IF seed_type \in {"artist", "track"} /\ seed_value = ""
       THEN pc' = "done" /\ result' = TextResult("seed_value_required")
       ELSE pc' = "seed" /\ result' = result
    /\ UNCHANGED <<nonDisc, tool, calls, playlists, discVars>>

\* genre_counts[genre] = genre_counts.get(genre, 0) + 1, over every artist's genres
RECURSIVE CountGenres(_, _, _)
CountGenres(genres, i, counts) ==
    IF i > Len(genres) THEN counts
    ELSE LET at == DictIndex(counts, genres[i])
         IN  CountGenres(genres, i + 1,
                DictSet(counts, genres[i],
                        IF at = 0 THEN 1 ELSE counts[at].value + 1))
RECURSIVE AllGenres(_, _)
AllGenres(artists, i) ==
    IF i > Len(artists) THEN <<>>
    ELSE artists[i].genres \o AllGenres(artists, i + 1)

\* sorted(genre_counts.keys(), key=lambda g: -genre_counts[g])[:3]
TopGenres(artists) ==
    LET counts == CountGenres(AllGenres(artists, 1), 1, <<>>)
        keys == AsList([i \in 1..Len(counts) |-> counts[i].key])
        neg == AsList([i \in 1..Len(counts) |-> 0 - counts[i].value])
    IN  Take(StableSort(keys, neg), GenreLimit)

SeedDone_Proceeds(genres, popularity, issued) ==
    /\ calls' = calls \o issued
    /\ seed_genres' = genres
    /\ seed_popularity' = popularity
    /\ pc' = "exclude" /\ result' = result

\* after the three branches: `if not seed_genres: return ...`
SeedDone(genres, popularity, issued) ==
    /\ calls' = calls \o issued
    /\ seed_genres' = genres
    /\ seed_popularity' = popularity
    /\ IF genres = <<>>
       THEN pc' = "done" /\ result' = TextResult("no_genres")
       ELSE pc' = "exclude" /\ result' = result

SeedRaises_Continues(issued) ==
    /\ calls' = calls \o issued
    /\ pc' = "exclude" /\ result' = result
    /\ UNCHANGED <<seed_genres, seed_popularity>>

\* a required call raises: the handler's except returns the failure message
SeedRaises(issued) ==
    /\ calls' = calls \o issued
    /\ pc' = "done" /\ result' = ErrorResult
    /\ UNCHANGED <<seed_genres, seed_popularity>>

\* Step 1: get seed genres
D_Seed ==
    /\ tool = "Discover" /\ pc = "seed"
    /\ \/ /\ seed_type = "artist"
          /\ \/ SeedRaises(<<Raised("search")>>)
             \/ /\ calls' = Append(calls, Call("search"))      \* no such artist
                /\ pc' = "done" /\ result' = TextResult("artist_not_found")
                /\ UNCHANGED <<seed_genres, seed_popularity>>
             \/ SeedRaises(<<Call("search"), Raised("get_artist")>>)
             \/ \E genres \in GenreSamples :
                  SeedDone(Take(genres, GenreLimit), DefaultSeedPopularity,
                           <<Call("search"), Call("get_artist")>>)
       \/ /\ seed_type = "track"
          /\ \/ SeedRaises(<<Raised("get_track")>>)
             \/ \E track \in SeedTrackSamples :
                  LET popularity == GetPopularity(track, DefaultSeedPopularity) IN
                  \/ SeedDone(<<>>, popularity, <<Call("get_track")>>) \* no artists
                  \/ /\ SeedRaises(<<Call("get_track"), Raised("get_artist")>>)
                  \/ \E genres \in GenreSamples :
                       SeedDone(Take(genres, GenreLimit), popularity,
                                <<Call("get_track"), Call("get_artist")>>)
       \/ /\ seed_type = "listening_history"
          /\ \/ SeedRaises(<<Raised("get_top_artists")>>)
             \/ \E top_artists \in TopArtistSamples :
                  SeedDone(TopGenres(top_artists), DefaultSeedPopularity,
                           <<Call("get_top_artists")>>)
    /\ UNCHANGED <<nonDisc, tool, playlists, seed_type, seed_value, limit,
                   create_playlist_flag, exclude_ids, recommendations,
                   seen_track_ids, artist_track_counts, genre_idx,
                   matching_artists, artist_idx>>

\* Step 2: tracks to exclude; both fetches are inside one try
D_Exclude ==
    /\ tool = "Discover" /\ pc = "exclude"
    /\ \/ /\ exclude_ids' = {}                       \* the first fetch raises
          /\ calls' = Append(calls, Raised("get_recent_track_ids"))
       \/ \E recent \in RecentSamples :
            \/ /\ exclude_ids' = recent               \* the second fetch raises
               /\ calls' = calls \o <<Call("get_recent_track_ids"),
                                      Raised("get_user_saved_track_ids")>>
            \/ \E saved \in SavedSamples :
               /\ exclude_ids' = recent \cup saved
               /\ calls' = calls \o <<Call("get_recent_track_ids"),
                                      Call("get_user_saved_track_ids")>>
    /\ pc' = "genres"
    /\ UNCHANGED <<nonDisc, tool, result, playlists, seed_type, seed_value, limit,
                   create_playlist_flag, seed_genres, seed_popularity,
                   recommendations, seen_track_ids, artist_track_counts, genre_idx,
                   matching_artists, artist_idx>>

\* artist_track_counts.get(artist_id, 0)
DictGet(d, key, default) ==
    IF DictIndex(d, key) = 0 THEN default ELSE d[DictIndex(d, key)].value

NoArtist == ""           \* artist_id = None

\* track['artists'][0]['id'] if track.get('artists') else None
PrimaryArtistId(track) ==
    IF track.artists # <<>> THEN track.artists[1].id ELSE NoArtist
PrimaryArtistName(track) ==
    IF track.artists # <<>> THEN track.artists[1].name ELSE "Unknown"

\* `track_id in seen_track_ids or track_id in exclude_ids`
Skipped_NoExclusion(track_id, seen, exclude) == track_id \in seen
Skipped_NotSeen(track_id, seen, exclude) == track_id \in exclude
Skipped(track_id, seen, exclude) == track_id \in seen \/ track_id \in exclude

\* `artist_id and artist_track_counts.get(artist_id, 0) >= 3`
Capped_Off(artist_id, counts) ==
    artist_id # NoArtist /\ DictGet(counts, artist_id, 0) > ArtistCap
Capped(artist_id, counts) ==
    artist_id # NoArtist /\ DictGet(counts, artist_id, 0) >= ArtistCap

\* Step 3, the body of `for track in tracks`; st holds recommendations,
\* seen_track_ids and artist_track_counts
GenreStep(st, track, genre, exclude) ==
    LET artist_id == PrimaryArtistId(track) IN
    IF Skipped(track.id, st.seen, exclude) THEN st
    ELSE IF Capped(artist_id, st.counts) THEN st
    ELSE [seen |-> st.seen \cup {track.id},
          counts |-> IF artist_id # NoArtist
                     THEN DictSet(st.counts, artist_id,
                                  DictGet(st.counts, artist_id, 0) + 1)
                     ELSE st.counts,
          recs |-> Append(st.recs,
                     [id |-> track.id, name |-> track.name,
                      artist |-> PrimaryArtistName(track),
                      artist_id |-> artist_id,
                      popularity |-> GetPopularity(track, 0),
                      source_genre |-> genre])]

RECURSIVE GenreScan(_, _, _, _, _)
GenreScan(st, tracks, i, genre, exclude) ==
    IF i > Len(tracks) THEN st
    ELSE GenreScan(GenreStep(st, tracks[i], genre, exclude), tracks, i + 1,
                   genre, exclude)

\* Step 3: one iteration of `for genre in seed_genres`, inside try/except
D_Genre ==
    /\ tool = "Discover" /\ pc = "genres" /\ genre_idx <= Len(seed_genres)
    /\ \/ /\ calls' = Append(calls, IdCall("search_by_genre", <<>>))   \* raises
          /\ UNCHANGED <<recommendations, seen_track_ids, artist_track_counts>>
       \/ \E ids \in SearchSamples :
            LET st == GenreScan([recs |-> recommendations, seen |-> seen_track_ids,
                                 counts |-> artist_track_counts],
                                Tracks(ids), 1, seed_genres[genre_idx], exclude_ids)
            IN  /\ calls' = Append(calls, IdCall("search_by_genre", ids))
                /\ recommendations' = st.recs
                /\ seen_track_ids' = st.seen
                /\ artist_track_counts' = st.counts
    /\ genre_idx' = genre_idx + 1
    /\ pc' = IF genre_idx < Len(seed_genres) THEN "genres"
             ELSE IF seed_type \in {"artist", "track"} THEN "top_artists"
             ELSE "rank"
    /\ UNCHANGED <<nonDisc, tool, result, playlists, seed_type, seed_value, limit,
                   create_playlist_flag, seed_genres, seed_popularity, exclude_ids,
                   matching_artists, artist_idx>>

\* `if artist_genres.intersection(seed_genres)`
Matches(artist, genres) == Range(artist.genres) \cap Range(genres) # {}

\* Step 4: the user's top artists that share a genre with the seed
D_TopArtists ==
    /\ tool = "Discover" /\ pc = "top_artists"
    /\ calls' = Append(calls, Call("get_top_artists"))
    /\ \/ /\ matching_artists' = matching_artists     \* raises: step 4 is skipped
          /\ pc' = "rank"
       \/ \E top_artists \in TopArtistSamples :
            /\ matching_artists' =
                  Take(Select(top_artists,
                              {i \in 1..Len(top_artists) :
                                  Matches(top_artists[i], seed_genres)}),
                       MatchLimit)
            /\ pc' = IF matching_artists' = <<>> THEN "rank" ELSE "similar"
    /\ UNCHANGED <<nonDisc, tool, result, playlists, seed_type, seed_value, limit,
                   create_playlist_flag, seed_genres, seed_popularity, exclude_ids,
                   recommendations, seen_track_ids, artist_track_counts, genre_idx,
                   artist_idx>>

\* Step 4, the body of `for track in top_tracks[:3]`: no per-artist cap here
SimilarStep(st, track, artist, exclude) ==
    IF Skipped(track.id, st.seen, exclude) THEN st
    ELSE [seen |-> st.seen \cup {track.id},
          counts |-> st.counts,
          recs |-> Append(st.recs,
                     [id |-> track.id, name |-> track.name,
                      artist |-> artist.name, artist_id |-> artist.id,
                      popularity |-> GetPopularity(track, 0),
                      source_genre |-> "top_artist_match"])]

RECURSIVE SimilarScan(_, _, _, _, _)
SimilarScan(st, tracks, i, artist, exclude) ==
    IF i > Len(tracks) THEN st
    ELSE SimilarScan(SimilarStep(st, tracks[i], artist, exclude), tracks, i + 1,
                     artist, exclude)

\* Step 4: one iteration of `for artist in matching_artists[:5]`, inside try/except
D_Similar ==
    /\ tool = "Discover" /\ pc = "similar" /\ artist_idx <= Len(matching_artists)
    /\ \/ /\ calls' = Append(calls, IdCall("get_artist_top_tracks", <<>>))
          /\ UNCHANGED <<recommendations, seen_track_ids>>
       \/ \E ids \in TopTrackSamples :
            LET st == SimilarScan([recs |-> recommendations, seen |-> seen_track_ids,
                                   counts |-> artist_track_counts],
                                  Take(Tracks(ids), TopTrackLimit), 1,
                                  matching_artists[artist_idx], exclude_ids)
            IN  /\ calls' = Append(calls, IdCall("get_artist_top_tracks", ids))
                /\ recommendations' = st.recs
                /\ seen_track_ids' = st.seen
    /\ artist_idx' = artist_idx + 1
    /\ pc' = IF artist_idx < Len(matching_artists) THEN "similar" ELSE "rank"
    /\ UNCHANGED <<nonDisc, tool, result, playlists, seed_type, seed_value, limit,
                   create_playlist_flag, seed_genres, seed_popularity, exclude_ids,
                   artist_track_counts, genre_idx, matching_artists>>

\* score_track: abs(t['popularity'] - seed_popularity)
Abs(x) == IF x < 0 THEN 0 - x ELSE x
Score(t, seed) == Abs(t.popularity - seed)
Scores(recs, seed) == AsList([i \in 1..Len(recs) |-> Score(recs[i], seed)])

\* s[:n] for any integer n: a negative n counts from the end
SliceTo(s, n) ==
    IF n >= 0 THEN Take(s, n)
    ELSE Take(s, IF Len(s) + n > 0 THEN Len(s) + n ELSE 0)

\* recommendations.sort(key=score_track); recommendations = recommendations[:limit]
Ranked_Unsorted(recs, seed, n) == SliceTo(recs, n)
Ranked(recs, seed, n) == SliceTo(StableSort(recs, Scores(recs, seed)), n)

\* limit = min(arguments.get("limit", 30), 50)
Min(a, b) == IF a < b THEN a ELSE b

DiscoverResult(recs, genres, created, track_count) ==
    [kind |-> "json",
     seed_genres |-> genres,
     recommendations |->
        AsList([i \in 1..Len(recs) |->
            [name |-> recs[i].name, artist |-> recs[i].artist, id |-> recs[i].id,
             popularity |-> recs[i].popularity]]),
     count |-> Len(recs),
     playlist_created |-> created,
     track_count |-> track_count]

\* Steps 5 and 6: rank, truncate, optionally create the playlist, return
D_Rank ==
    /\ tool = "Discover" /\ pc = "rank"
    /\ recommendations' = Ranked(recommendations, seed_popularity, Min(limit, MaxLimit))
    /\ pc' = "done"
    /\ \/ /\ ~(create_playlist_flag /\ recommendations' # <<>>)
          /\ UNCHANGED <<calls, playlists>>
          /\ result' = DiscoverResult(recommendations', seed_genres, FALSE, 0)
       \/ /\ create_playlist_flag /\ recommendations' # <<>>
          /\ \/ /\ calls' = Append(calls, Call("create_playlist"))   \* raises
                /\ playlists' = playlists
                /\ result' = ErrorResult
             \/ /\ calls' = calls \o <<Call("create_playlist"),
                                       AddCall(Len(playlists) + 1,
                                               Ids(recommendations'))>>
                /\ \E accepted \in BOOLEAN :
                      playlists' = AddTracks(CreatePlaylist(playlists, "Discover"),
                                             Len(playlists) + 1,
                                             Ids(recommendations'), accepted)
                /\ result' = DiscoverResult(recommendations', seed_genres, TRUE,
                                            Len(recommendations'))
    /\ UNCHANGED <<nonDisc, tool, seed_type, seed_value, limit, create_playlist_flag,
                   seed_genres, seed_popularity, exclude_ids, seen_track_ids,
                   artist_track_counts, genre_idx, matching_artists, artist_idx>>

DeepDiveIdle ==
    /\ albums = <<>> /\ album_idx = 1 /\ all_tracks = <<>> /\ unique_tracks = <<>>
    /\ best_of_tracks = <<>> /\ deep_cuts = <<>> /\ chronological = <<>>
    /\ deep_cuts_threshold = DefaultThreshold

InitDiscover ==
    /\ tool = "Discover" /\ pc = "validate"
    /\ result = NoResult /\ calls = <<>> /\ playlists = <<>>
    /\ seed_type \in SeedTypes
    /\ seed_value \in SeedValues
    /\ limit \in LimitArgs
    /\ create_playlist_flag \in BOOLEAN
    /\ seed_genres = <<>> /\ seed_popularity = DefaultSeedPopularity
    /\ exclude_ids = {}
    /\ recommendations = <<>> /\ seen_track_ids = {} /\ artist_track_counts = <<>>
    /\ genre_idx = 1 /\ matching_artists = <<>> /\ artist_idx = 1
    /\ LibrarianIdle
    /\ DeepDiveIdle
    /\ TopMusicIdle /\ ActionIdle /\ ClientIdle /\ FirstCall

NextDiscover ==
    \/ D_Validate \/ D_Seed \/ D_Exclude \/ D_Genre
    \/ D_TopArtists \/ D_Similar \/ D_Rank

SpecDiscover == InitDiscover /\ [][NextDiscover]_vars

(***************************************************************************)
(* GENRE_CATEGORIES (server.py 42-53): an insertion-ordered dict, label to  *)
(* keyword list.  Each glyph of a label is one character, written here as   *)
(* its name in parentheses.                                                *)
(***************************************************************************)
GENRE_CATEGORIES ==
    <<
     \* (guitar) Rock: rock, metal, punk, grunge, alternative, indie rock, hard rock
     [label |-> <<"(guitar)", " ", "R", "o", "c", "k">>,
      keywords |-> <<
         <<"r", "o", "c", "k">>,
         <<"m", "e", "t", "a", "l">>,
         <<"p", "u", "n", "k">>,
         <<"g", "r", "u", "n", "g", "e">>,
         <<"a", "l", "t", "e", "r", "n", "a", "t", "i", "v", "e">>,
         <<"i", "n", "d", "i", "e", " ", "r", "o", "c", "k">>,
         <<"h", "a", "r", "d", " ", "r", "o", "c", "k">>>>],
     \* (notes) Pop: pop, dance pop, electropop, synth-pop, indie pop
     [label |-> <<"(notes)", " ", "P", "o", "p">>,
      keywords |-> <<
         <<"p", "o", "p">>,
         <<"d", "a", "n", "c", "e", " ", "p", "o", "p">>,
         <<"e", "l", "e", "c", "t", "r", "o", "p", "o", "p">>,
         <<"s", "y", "n", "t", "h", "-", "p", "o", "p">>,
         <<"i", "n", "d", "i", "e", " ", "p", "o", "p">>>>],
     \* (microphone) Hip-Hop: hip hop, rap, trap, southern hip hop, gangster rap
     [label |-> <<"(microphone)", " ", "H", "i", "p", "-", "H", "o", "p">>,
      keywords |-> <<
         <<"h", "i", "p", " ", "h", "o", "p">>,
         <<"r", "a", "p">>,
         <<"t", "r", "a", "p">>,
         <<"s", "o", "u", "t", "h", "e", "r", "n", " ", "h", "i", "p", " ", "h", "o", "p">>,
         <<"g", "a", "n", "g", "s", "t", "e", "r", " ", "r", "a", "p">>>>],
     \* (headphone) Electronic: electronic, edm, house, techno, dubstep, trance, drum and bass
     [label |-> <<"(headphone)", " ", "E", "l", "e", "c", "t", "r", "o", "n", "i", "c">>,
      keywords |-> <<
         <<"e", "l", "e", "c", "t", "r", "o", "n", "i", "c">>,
         <<"e", "d", "m">>,
         <<"h", "o", "u", "s", "e">>,
         <<"t", "e", "c", "h", "n", "o">>,
         <<"d", "u", "b", "s", "t", "e", "p">>,
         <<"t", "r", "a", "n", "c", "e">>,
         <<"d", "r", "u", "m", " ", "a", "n", "d", " ", "b", "a", "s", "s">>>>],
     \* (saxophone) Jazz: jazz, bebop, swing, smooth jazz, jazz fusion
     [label |-> <<"(saxophone)", " ", "J", "a", "z", "z">>,
      keywords |-> <<
         <<"j", "a", "z", "z">>,
         <<"b", "e", "b", "o", "p">>,
         <<"s", "w", "i", "n", "g">>,
         <<"s", "m", "o", "o", "t", "h", " ", "j", "a", "z", "z">>,
         <<"j", "a", "z", "z", " ", "f", "u", "s", "i", "o", "n">>>>],
     \* (violin) Classical: classical, orchestra, symphony, baroque, opera
     [label |-> <<"(violin)", " ", "C", "l", "a", "s", "s", "i", "c", "a", "l">>,
      keywords |-> <<
         <<"c", "l", "a", "s", "s", "i", "c", "a", "l">>,
         <<"o", "r", "c", "h", "e", "s", "t", "r", "a">>,
         <<"s", "y", "m", "p", "h", "o", "n", "y">>,
         <<"b", "a", "r", "o", "q", "u", "e">>,
         <<"o", "p", "e", "r", "a">>>>],
     \* (cowboy) Country: country, americana, folk, bluegrass, country rock
     [label |-> <<"(cowboy)", " ", "C", "o", "u", "n", "t", "r", "y">>,
      keywords |-> <<
         <<"c", "o", "u", "n", "t", "r", "y">>,
         <<"a", "m", "e", "r", "i", "c", "a", "n", "a">>,
         <<"f", "o", "l", "k">>,
         <<"b", "l", "u", "e", "g", "r", "a", "s", "s">>,
         <<"c", "o", "u", "n", "t", "r", "y", " ", "r", "o", "c", "k">>>>],
     \* (trumpet) R&B: r&b, soul, funk, neo soul, motown
     [label |-> <<"(trumpet)", " ", "R", "&", "B">>,
      keywords |-> <<
         <<"r", "&", "b">>,
         <<"s", "o", "u", "l">>,
         <<"f", "u", "n", "k">>,
         <<"n", "e", "o", " ", "s", "o", "u", "l">>,
         <<"m", "o", "t", "o", "w", "n">>>>],
     \* (globe) World: latin, reggae, afrobeat, k-pop, j-pop, reggaeton, bossa nova
     [label |-> <<"(globe)", " ", "W", "o", "r", "l", "d">>,
      keywords |-> <<
         <<"l", "a", "t", "i", "n">>,
         <<"r", "e", "g", "g", "a", "e">>,
         <<"a", "f", "r", "o", "b", "e", "a", "t">>,
         <<"k", "-", "p", "o", "p">>,
         <<"j", "-", "p", "o", "p">>,
         <<"r", "e", "g", "g", "a", "e", "t", "o", "n">>,
         <<"b", "o", "s", "s", "a", " ", "n", "o", "v", "a">>>>],
     \* (sleeping) Chill: ambient, lo-fi, chill, downtempo, chillwave
     [label |-> <<"(sleeping)", " ", "C", "h", "i", "l", "l">>,
      keywords |-> <<
         <<"a", "m", "b", "i", "e", "n", "t">>,
         <<"l", "o", "-", "f", "i">>,
         <<"c", "h", "i", "l", "l">>,
         <<"d", "o", "w", "n", "t", "e", "m", "p", "o">>,
         <<"c", "h", "i", "l", "l", "w", "a", "v", "e">>>>] >>

\* `kw in g` on strings: kw is a substring of g
Contains(kw, g) ==
    \E i \in 0..(Len(g) - Len(kw)) : SubSeq(g, i + 1, i + Len(kw)) = kw

\* name.startswith(prefix)
StartsWith(name, prefix) ==
    /\ Len(prefix) <= Len(name)
    /\ SubSeq(name, 1, Len(prefix)) = prefix

\* str.split(): the words between runs of whitespace
RECURSIVE SplitFrom(_, _, _, _)
SplitFrom(s, i, word, words) ==
    LET closed == IF word = <<>> THEN words ELSE Append(words, word) IN
    IF i > Len(s) THEN closed
    ELSE IF s[i] = " " THEN SplitFrom(s, i + 1, <<>>, closed)
    ELSE SplitFrom(s, i + 1, Append(word, s[i]), words)
Split(s) == SplitFrom(s, 1, <<>>, <<>>)

\* any(kw in g.lower() for kw in keywords)
TagMatches(g, keywords) ==
    LET lowered == AsList(Lower(g))
    IN  \E k \in 1..Len(keywords) : Contains(keywords[k], lowered)

\* sum(1 for g in all_genres if any(...))
CategoryScore(genres, keywords) ==
    Cardinality({i \in 1..Len(genres) : TagMatches(genres[i], keywords)})

\* `if score > best_score`
Improves_GE(score, best) == score >= best
Improves(score, best) == score > best

\* for category, keywords in GENRE_CATEGORIES.items(): ...
RECURSIVE ScoreFrom(_, _, _)
ScoreFrom(genres, c, best) ==
    IF c > Len(GENRE_CATEGORIES) THEN best
    ELSE LET score == CategoryScore(genres, GENRE_CATEGORIES[c].keywords)
         IN  ScoreFrom(genres, c + 1,
                IF Improves(score, best.score)
                THEN [category |-> GENRE_CATEGORIES[c].label, score |-> score]
                ELSE best)
Classify(genres) == ScoreFrom(genres, 1, [category |-> NoCategory, score |-> 0])

\* any(name.startswith(cat) for cat in GENRE_CATEGORIES)
AlreadyCategorized_Exact(name) ==
    \E c \in 1..Len(GENRE_CATEGORIES) : name = GENRE_CATEGORIES[c].label
AlreadyCategorized(name) ==
    \E c \in 1..Len(GENRE_CATEGORIES) : StartsWith(name, GENRE_CATEGORIES[c].label)

\* f"{best_category}/{name}" or f"[{best_category.split()[1]}] {name}"
NewName(category, name, category_style) ==
    IF category_style = "emoji" THEN category \o <<"/">> \o name
    ELSE <<"[">> \o Split(category)[2] \o <<"]", " ">> \o name

\* for genres in artist_genres.values(): all_genres.extend(genres)
RECURSIVE Flatten(_, _)
Flatten(lists, i) ==
    IF i > Len(lists) THEN <<>> ELSE lists[i] \o Flatten(lists, i + 1)

(***************************************************************************)
(* The catalog service as seen by PlaylistLibrarian                        *)
(***************************************************************************)
SampleLimit == 30        \* get_playlist_tracks(...)[:30]

Me == "me"               \* sp.current_user()['id']
Playlist(id, name, owner) == [id |-> id, name |-> name, owner |-> owner]

Name_Mix == <<"M", "i", "x">>
Name_RockMix == <<"(guitar)", " ", "R", "o", "c", "k", "/", "M", "i", "x">>
Name_TextRockMix == <<"[", "R", "o", "c", "k", "]", " ", "M", "i", "x">>
Name_Rocks == <<"(guitar)", " ", "R", "o", "c", "k", "s">>
Name_LowerRock == <<"(guitar)", " ", "r", "o", "c", "k">>

\* what get_all_playlists() finds: the playlists the service holds
LibrarySamples ==
    { <<>>,
      <<Playlist(1, Name_Mix, Me), Playlist(2, Name_RockMix, Me),
        Playlist(3, Name_Mix, "other")>>,
      <<Playlist(1, Name_TextRockMix, Me), Playlist(2, Name_Rocks, Me)>>,
      <<Playlist(1, Name_LowerRock, Me), Playlist(2, Name_Mix, Me)>> }

\* playlist items: a track with an id, or None / a track without one
Item(id) == [has_id |-> TRUE, id |-> id]
NoItem == [has_id |-> FALSE, id |-> 0]
BulkItems == [i \in 1..(SampleLimit + 1) |-> Item(i)]
\* answers of get_playlist_tracks(playlist_id)
ItemSamples ==
    { <<>>, <<NoItem>>, <<Item(1), NoItem, Item(2)>>, AsList(BulkItems) }

\* answers of get_artists_for_tracks(track_ids)
ArtistIdSamples == { <<>>, <<"a1", "a2">> }

\* answers of get_artists_genres(artist_ids): the values of the dict, in order
Tag_Polka == <<"P", "o", "l", "k", "a">>
Tag_SpokenWord == <<"s", "p", "o", "k", "e", "n", " ", "w", "o", "r", "d">>
Tag_CountryRock == <<"c", "o", "u", "n", "t", "r", "y", " ", "r", "o", "c", "k">>
Tag_IndieRock == <<"I", "n", "d", "i", "e", " ", "R", "o", "c", "k">>
Tag_KPop == <<"k", "-", "p", "o", "p">>
Tag_Jazz == <<"j", "a", "z", "z">>
Tag_Bebop == <<"b", "e", "b", "o", "p">>
Tag_Rock == <<"r", "o", "c", "k">>
Tag_RnB == <<"R", "&", "B">>
ArtistGenreSamples ==
    { <<>>,
      << <<>>, <<>> >>,
      << <<Tag_Polka>>, <<Tag_SpokenWord>> >>,
      << <<Tag_CountryRock>> >>,
      << <<Tag_IndieRock, Tag_KPop>>, <<Tag_Jazz>> >>,
      << <<Tag_Jazz, Tag_Bebop>>, <<Tag_Rock>> >>,
      << <<Tag_RnB>> >> }

Styles == {"emoji", "text"}

PlaylistCall(op, playlist_id) == [op |-> op, playlist_id |-> playlist_id]
TrackIdsCall(track_ids) == [op |-> "get_artists_for_tracks", track_ids |-> track_ids]
\* values: the answer, when the call did not raise
GenresCall(artist_ids, raised, values) ==
    [op |-> "get_artists_genres", artist_ids |-> artist_ids, raised |-> raised,
     values |-> values]
RenameCall(playlist_id, name) ==
    [op |-> "change_playlist_details", playlist_id |-> playlist_id, name |-> name]

(***************************************************************************)
(* PlaylistLibrarian (server.py 570-669)                                   *)
(***************************************************************************)
\* Step 1: the user-owned playlists; a failure here reaches the handler's except
L_Fetch ==
    /\ tool = "PlaylistLibrarian" /\ pc = "fetch"
    /\ \/ /\ calls' = Append(calls, Call("get_all_playlists"))       \* raises
          /\ pc' = "done" /\ result' = ErrorResult
          /\ UNCHANGED <<owned, category_counts>>
       \/ /\ calls' = calls \o <<Call("get_all_playlists"), Call("current_user")>>
          /\ pc' = "done" /\ result' = ErrorResult                   \* raises
          /\ UNCHANGED <<owned, category_counts>>
       \/ /\ calls' = calls \o <<Call("get_all_playlists"), Call("current_user")>>
          /\ owned' = Select(playlists,
                             {i \in 1..Len(playlists) : playlists[i].owner = Me})
          /\ category_counts' =
                AsList([c \in 1..Len(GENRE_CATEGORIES) |->
                           [key |-> GENRE_CATEGORIES[c].label, value |-> 0]])
          /\ pc' = IF owned' = <<>> THEN "result" ELSE "playlist"
          /\ result' = result
    /\ UNCHANGED <<nonLib, tool, playlists, dry_run, style, playlist_idx, changes,
                   skipped, all_genres, best_category, best_score>>

\* where the loop `for playlist in owned` goes after this iteration
NextPlaylist == IF playlist_idx < Len(owned) THEN "playlist" ELSE "result"

SkipPlaylist_NoCount(issued) ==
    /\ calls' = calls \o issued
    /\ skipped' = skipped
    /\ playlist_idx' = playlist_idx + 1
    /\ pc' = NextPlaylist
    /\ all_genres' = all_genres

\* skipped += 1; continue
SkipPlaylist(issued) ==
    /\ calls' = calls \o issued
    /\ skipped' = skipped + 1
    /\ playlist_idx' = playlist_idx + 1
    /\ pc' = NextPlaylist
    /\ all_genres' = all_genres

\* [t['id'] for t in tracks if t and t.get('id')]
TrackIds(tracks) ==
    LET with_id == Select(tracks, {i \in 1..Len(tracks) : tracks[i].has_id})
    IN  AsList([k \in 1..Len(with_id) |-> with_id[k].id])

\* One iteration of the loop up to step 3: the already-categorized test, the
\* track sample, the artists and their genres
L_Analyze ==
    /\ tool = "PlaylistLibrarian" /\ pc = "playlist"
    /\ LET playlist == owned[playlist_idx]
           fetch == PlaylistCall("get_playlist_tracks", playlist.id)
       IN  IF AlreadyCategorized(playlist.name) THEN SkipPlaylist(<<>>)
           ELSE
           \/ SkipPlaylist(<<fetch>>)                                 \* raises
           \/ \E items \in ItemSamples :
                LET tracks == Take(items, SampleLimit)
                    track_ids == TrackIds(tracks)
                    lookup == TrackIdsCall(track_ids)
                IN  IF tracks = <<>> \/ track_ids = <<>>
                    THEN SkipPlaylist(<<fetch>>)
                    ELSE
                    \/ SkipPlaylist(<<fetch, lookup>>)                \* raises
                    \/ \E artist_ids \in ArtistIdSamples :
                         IF artist_ids = <<>>
                         THEN SkipPlaylist(<<fetch, lookup>>)
                         ELSE
                         \/ SkipPlaylist(<<fetch, lookup,             \* raises
                                           GenresCall(artist_ids, TRUE, <<>>)>>)
                         \/ \E values \in ArtistGenreSamples :
                              /\ calls' = calls \o
                                    <<fetch, lookup,
                                      GenresCall(artist_ids, FALSE, values)>>
                              /\ all_genres' = Flatten(values, 1)
                              /\ pc' = "score"
                              /\ UNCHANGED <<skipped, playlist_idx>>
    /\ UNCHANGED <<nonLib, tool, result, playlists, dry_run, style, owned, changes,
                   category_counts, best_category, best_score>>

\* "applied": not dry_run
AppliedFlag_Always(dry) == TRUE
AppliedFlag(dry) == ~dry

\* `if best_category and best_score > 0`
Categorized(best) == best.category # NoCategory /\ best.score > 0

\* Step 4 of the iteration: score the genres, record the change, rename
L_Score ==
    /\ tool = "PlaylistLibrarian" /\ pc = "score"
    /\ LET playlist == owned[playlist_idx]
           best == Classify(all_genres)
           new_name == NewName(best.category, playlist.name, style)
           change == [playlist_id |-> playlist.id,
                      original_name |-> playlist.name,
                      new_name |-> new_name,
                      detected_category |-> best.category,
                      applied |-> AppliedFlag(dry_run)]
       IN  /\ best_category' = best.category
           /\ best_score' = best.score
           /\ IF Categorized(best)
              THEN /\ category_counts' =
                         DictSet(category_counts, best.category,
                                 DictGet(category_counts, best.category, 0) + 1)
                   /\ skipped' = skipped
                   /\ IF dry_run
                      THEN /\ changes' = Append(changes, change)
                           /\ UNCHANGED <<calls, playlists>>
                      ELSE /\ calls' = Append(calls, RenameCall(playlist.id, new_name))
                           \* renamed; or the service call fails inside
                           \* change_playlist_details, which logs it and returns;
                           \* or change_playlist_details raises before the call
                           /\ \/ /\ playlists' = [playlists EXCEPT
                                                    ![playlist.id].name = new_name]
                                 /\ changes' = Append(changes, change)
                              \/ /\ playlists' = playlists
                                 /\ changes' = Append(changes, change)
                              \/ /\ playlists' = playlists
                                 /\ changes' = Append(changes,
                                                  [change EXCEPT !.applied = FALSE])
              ELSE /\ skipped' = skipped + 1
                   /\ UNCHANGED <<changes, category_counts, calls, playlists>>
    /\ playlist_idx' = playlist_idx + 1
    /\ pc' = NextPlaylist
    /\ UNCHANGED <<nonLib, tool, result, dry_run, style, owned, all_genres>>

\* {k: v for k, v in category_counts.items() if v > 0}
CategorySummary(counts) ==
    Select(counts, {i \in 1..Len(counts) : counts[i].value > 0})

L_Result ==
    /\ tool = "PlaylistLibrarian" /\ pc = "result"
    /\ result' = [kind |-> "json",
                  playlists_analyzed |-> Len(owned),
                  playlists_categorized |-> Len(changes),
                  playlists_skipped |-> skipped,
                  dry_run |-> dry_run,
                  changes |-> changes,
                  category_summary |-> CategorySummary(category_counts)]
    /\ pc' = "done"
    /\ UNCHANGED <<nonLib, tool, calls, playlists, libVars>>

InitLibrarian ==
    /\ tool = "PlaylistLibrarian" /\ pc = "fetch"
    /\ result = NoResult /\ calls = <<>>
    /\ playlists \in LibrarySamples
    /\ dry_run \in BOOLEAN
    /\ style \in Styles
    /\ owned = <<>> /\ playlist_idx = 1
    /\ changes = <<>> /\ category_counts = <<>> /\ skipped = 0
    /\ all_genres = <<>> /\ best_category = NoCategory /\ best_score = 0
    /\ DeepDiveIdle /\ DiscoverIdle
    /\ TopMusicIdle /\ ActionIdle /\ ClientIdle /\ FirstCall

NextLibrarian == L_Fetch \/ L_Analyze \/ L_Score \/ L_Result

SpecLibrarian == InitLibrarian /\ [][NextLibrarian]_vars

(***************************************************************************)
(* PlaylistLibrarian called a second time, with the same dry_run = false   *)
(* and category_style, after a call in which every rename succeeded: the   *)
(* handler starts afresh on the playlists as the service now holds them    *)
(***************************************************************************)
EveryRenameSucceeded ==
    /\ result.kind = "json" /\ ~dry_run /\ changes # <<>>
    /\ \A k \in 1..Len(changes) :
          /\ changes[k].applied
          /\ playlists[changes[k].playlist_id].name = changes[k].new_name

L_Again ==
    /\ tool = "PlaylistLibrarian" /\ pc = "done" /\ invocation = 1
    /\ EveryRenameSucceeded
    /\ invocation' = 2
    /\ first_renamed' = {changes[k].playlist_id : k \in 1..Len(changes)}
    /\ pc' = "fetch" /\ result' = NoResult /\ calls' = <<>>
    /\ owned' = <<>> /\ playlist_idx' = 1
    /\ changes' = <<>> /\ category_counts' = <<>> /\ skipped' = 0
    /\ all_genres' = <<>> /\ best_category' = NoCategory /\ best_score' = 0
    /\ UNCHANGED <<ddVars, discVars, topVars, actVars, clientVars,
                   tool, playlists, dry_run, style>>

NextTwice == NextLibrarian \/ L_Again

SpecTwice == InitLibrarian /\ [][NextTwice]_vars

(***************************************************************************)
(* Step 4 on every short list of keywords of one category: the handler at  *)
(* line 623, for a playlist whose artists carry at most MaxTags genre tags, *)
(* each of them a keyword of the same category                             *)
(***************************************************************************)
MaxTags == 2

KeywordLists ==
    UNION {UNION {[1..n -> Range(GENRE_CATEGORIES[c].keywords)] : n \in 1..MaxTags} :
              c \in 1..Len(GENRE_CATEGORIES)}

InitClassify ==
    /\ tool = "PlaylistLibrarian" /\ pc = "score"
    /\ result = NoResult
    /\ playlists = <<Playlist(1, Name_Mix, Me)>>
    /\ owned = playlists /\ playlist_idx = 1
    /\ dry_run \in BOOLEAN
    /\ style \in Styles
    /\ \E tags \in KeywordLists :
          /\ all_genres = AsList(tags)
          /\ calls = <<Call("get_all_playlists"), Call("current_user"),
                       PlaylistCall("get_playlist_tracks", 1),
                       TrackIdsCall(<<1>>),
                       GenresCall(<<"a1">>, FALSE, <<AsList(tags)>>)>>
    /\ changes = <<>> /\ skipped = 0
    /\ category_counts =
          AsList([c \in 1..Len(GENRE_CATEGORIES) |->
                     [key |-> GENRE_CATEGORIES[c].label, value |-> 0]])
    /\ best_category = NoCategory /\ best_score = 0
    /\ DeepDiveIdle /\ DiscoverIdle
    /\ TopMusicIdle /\ ActionIdle /\ ClientIdle /\ FirstCall

NextClassify == L_Score \/ L_Result

SpecClassify == InitClassify /\ [][NextClassify]_vars

(***************************************************************************)
(* MyTopMusic (server.py 671-764)                                          *)
(***************************************************************************)
DefaultTopCount == 10    \* arguments.get("top_count", 10)
MaxTopCount == 50        \* min(..., 50)
DisplayGenres == 3       \* genres[:3]
BreakdownLimit == 5      \* sorted(...)[:5]
MsPerHour == 3600000

PeriodLabels == {"short_term", "medium_term", "long_term"}
\* arguments.get("time_range", "short_term"): a label, or anything else
TimeRanges == PeriodLabels \cup {"all_time", ""}

\* arguments.get("top_count", 10): something int() accepts, or not
IntArg(n) == [numeric |-> TRUE, value |-> n]
NotAnInt == [numeric |-> FALSE, value |-> 0]
TopCountArgs == {IntArg(DefaultTopCount), IntArg(2), IntArg(0), IntArg(-1),
                 IntArg(60), NotAnInt}

\* items of get_top_tracks(time_range, limit=50)
TopTrack(id, artists, has_duration, duration_ms) ==
    [id |-> id, name |-> id, artists |-> artists,
     has_duration |-> has_duration, duration_ms |-> duration_ms]
ManyTopTracks ==
    [i \in 1..(DefaultTopCount + 2) |->
        TopTrack(i, <<Artist("a1")>>, TRUE, 200000 + i * 1000)]
MyTopTrackSamples ==
    { <<>>,
      <<TopTrack(1, <<Artist("a1")>>, TRUE, 215000),
        TopTrack(2, <<Artist("a2"), Artist("a1")>>, FALSE, 0),
        TopTrack(3, <<Artist("a1")>>, TRUE, 3600000)>>,
      <<TopTrack(1, <<Artist("a1")>>, TRUE, 215000),
        TopTrack(2, <<>>, TRUE, 100000)>>,
      AsList(ManyTopTracks) }

Tag_IndiePop == <<"i", "n", "d", "i", "e", " ", "p", "o", "p">>
Tag_DreamPop == <<"d", "r", "e", "a", "m", " ", "p", "o", "p">>
Tag_LowerIndieRock == <<"i", "n", "d", "i", "e", " ", "r", "o", "c", "k">>
Tag_LoFi == <<"l", "o", "-", "f", "i">>
Tag_House == <<"h", "o", "u", "s", "e">>
Tag_Empty == <<>>
Tag_Blank == <<" ">>
Word_Other == <<"o", "t", "h", "e", "r">>

\* items of get_top_artists(time_range, limit=50)
MyTopArtistSamples ==
    { <<>>,
      <<TopArtist("a1", <<Tag_LowerIndieRock, Tag_IndiePop, Tag_Jazz, Tag_DreamPop>>),
        TopArtist("a2", <<>>),
        TopArtist("a3", <<Tag_Jazz, Tag_Empty, Tag_DreamPop>>)>>,
      <<TopArtist("a1", <<Tag_Jazz>>), TopArtist("a2", <<Tag_Blank>>)>>,
      <<TopArtist("a1", <<Tag_LoFi, Tag_LoFi>>), TopArtist("a2", <<Tag_House>>)>>,
      \* six buckets, two of them counted twice
      <<TopArtist("a1", <<Tag_Rock, Tag_IndiePop, Tag_Jazz, Tag_LowerIndieRock,
                          Tag_Polka, Tag_Bebop, Tag_KPop, Tag_KPop>>)>> }

\* `if time_range not in period_labels` is false
ValidTimeRange_Any(range) == TRUE
ValidTimeRange(range) == range \in PeriodLabels

\* the arguments; int() of something that is no number raises, before the
\* time_range test
M_Validate ==
    /\ tool = "MyTopMusic" /\ pc = "validate"
    /\ IF ~top_count_arg.numeric
       THEN pc' = "done" /\ result' = ErrorResult /\ top_count' = top_count
       ELSE /\ top_count' = Min(top_count_arg.value, MaxTopCount)
            /\ IF ~ValidTimeRange(time_range)
               THEN pc' = "done" /\ result' = TextResult("invalid_time_range")
               ELSE pc' = "fetch" /\ result' = result
    /\ UNCHANGED <<nonTop, tool, calls, playlists, time_range, top_count_arg,
                   create_playlist, my_top_tracks, my_top_artists>>

\* 1. Fetch data: either call raising reaches the handler's except
M_Fetch ==
    /\ tool = "MyTopMusic" /\ pc = "fetch"
    /\ \/ /\ calls' = Append(calls, Raised("get_top_tracks"))
          /\ pc' = "done" /\ result' = ErrorResult
          /\ UNCHANGED <<my_top_tracks, my_top_artists>>
       \/ \E tracks \in MyTopTrackSamples :
            /\ my_top_tracks' = tracks
            /\ \/ /\ calls' = calls \o <<Call("get_top_tracks"),
                                         Raised("get_top_artists")>>
                  /\ pc' = "done" /\ result' = ErrorResult
                  /\ my_top_artists' = my_top_artists
               \/ \E artists \in MyTopArtistSamples :
                    /\ calls' = calls \o <<Call("get_top_tracks"),
                                           Call("get_top_artists")>>
                    /\ my_top_artists' = artists
                    /\ pc' = "report" /\ result' = result
    /\ UNCHANGED <<nonTop, tool, playlists, time_range, top_count_arg, top_count,
                   create_playlist>>

\* total_duration_ms += track.get('duration_ms', 0)
RECURSIVE TotalDuration(_, _)
TotalDuration(tracks, i) ==
    IF i > Len(tracks) THEN 0
    ELSE (IF tracks[i].has_duration THEN tracks[i].duration_ms ELSE 0)
         + TotalDuration(tracks, i + 1)

\* track['artists'][0] of a track that has no artist raises IndexError
DisplayRaises(tracks) == \E i \in 1..Len(tracks) : tracks[i].artists = <<>>

TopTracksDisplay(tracks) ==
    AsList([i \in 1..Len(tracks) |->
        [rank |-> i, name |-> tracks[i].name,
         artist |-> tracks[i].artists[1].name, id |-> tracks[i].id]])

TopArtistsDisplay(artists) ==
    AsList([i \in 1..Len(artists) |->
        [rank |-> i, name |-> artists[i].name,
         genres |-> Take(artists[i].genres, DisplayGenres)]])

\* genre.split()[0] if genre else "other"; split() of a blank genre is empty
\* and [0] raises IndexError
SimpleRaises(genres) ==
    \E i \in 1..Len(genres) : genres[i] # <<>> /\ Split(genres[i]) = <<>>
SimpleGenre(genre) == IF genre = <<>> THEN Word_Other ELSE Split(genre)[1]

\* sum(genre_counts.values())
RECURSIVE SumValues(_, _)
SumValues(counts, i) ==
    IF i > Len(counts) THEN 0 ELSE counts[i].value + SumValues(counts, i + 1)

\* round(n / d) for n >= 0, d > 0: to the nearest integer, a tie to the even
\* one.  (Python rounds the float n / d; the two differ only where the float
\* is not exact, which no total of the samples reaches.)
RoundHalfEven(n, d) ==
    LET q == n \div d
        r == n % d
    IN  IF 2 * r < d THEN q
        ELSE IF 2 * r > d THEN q + 1
        ELSE IF q % 2 = 0 THEN q ELSE q + 1

GenreBreakdown_Unsorted(genres) ==
    LET simple == AsList([i \in 1..Len(genres) |-> SimpleGenre(genres[i])])
        genre_counts == CountGenres(simple, 1, <<>>)
        sum == SumValues(genre_counts, 1)
        total_genres == IF sum = 0 THEN 1 ELSE sum
        top == Take(genre_counts, BreakdownLimit)
    IN  AsList([i \in 1..Len(top) |->
            [key |-> top[i].key,
             value |-> RoundHalfEven(top[i].value * 100, total_genres)]])

\* 4. Calculate genre breakdown
GenreBreakdown(genres) ==
    LET simple == AsList([i \in 1..Len(genres) |-> SimpleGenre(genres[i])])
        genre_counts == CountGenres(simple, 1, <<>>)
        sum == SumValues(genre_counts, 1)
        total_genres == IF sum = 0 THEN 1 ELSE sum
        neg == AsList([i \in 1..Len(genre_counts) |-> 0 - genre_counts[i].value])
        top == Take(StableSort(genre_counts, neg), BreakdownLimit)
    IN  AsList([i \in 1..Len(top) |->
            [key |-> top[i].key,
             value |-> RoundHalfEven(top[i].value * 100, total_genres)]])

\* Steps 2 to 6 and the result.  The duration is kept in tenths of an hour.
M_Report ==
    /\ tool = "MyTopMusic" /\ pc = "report"
    /\ pc' = "done"
    /\ LET shown == SliceTo(my_top_tracks, top_count)
           artists == SliceTo(my_top_artists, top_count)
           genres == AllGenres(artists, 1)
           track_ids == Ids(shown)
           id == Len(playlists) + 1
           report(created, n) ==
               [kind |-> "json",
                time_range |-> time_range,
                top_tracks |-> TopTracksDisplay(shown),
                top_artists |-> TopArtistsDisplay(artists),
                genre_breakdown |-> GenreBreakdown(genres),
                stats |-> [top_tracks_analyzed |-> Len(my_top_tracks),
                           top_artists_analyzed |-> Len(my_top_artists),
                           duration_tenths |->
                              RoundHalfEven(TotalDuration(shown, 1) * 10, MsPerHour)],
                playlist_created |-> created,
                track_count |-> n]
       IN  IF DisplayRaises(shown) \/ SimpleRaises(genres)
           THEN result' = ErrorResult /\ UNCHANGED <<calls, playlists>>
           ELSE IF ~(create_playlist /\ my_top_tracks # <<>>)
           THEN result' = report(FALSE, 0) /\ UNCHANGED <<calls, playlists>>
           ELSE \/ /\ calls' = Append(calls, Call("create_playlist"))   \* raises
                   /\ playlists' = playlists
                   /\ result' = ErrorResult
                \/ /\ calls' = calls \o <<Call("create_playlist"),
                                          AddCall(id, track_ids)>>
                   /\ IF track_ids = <<>>
                      \* add_tracks_to_playlist: "No track IDs provided."
                      THEN /\ playlists' = CreatePlaylist(playlists, "My Top Tracks")
                           /\ result' = ErrorResult
                      ELSE /\ \E accepted \in BOOLEAN :
                                 playlists' =
                                    AddTracks(CreatePlaylist(playlists, "My Top Tracks"),
                                              id, track_ids, accepted)
                           /\ result' = report(TRUE, Len(track_ids))
    /\ UNCHANGED <<nonTop, tool, topVars>>

InitTopMusic ==
    /\ tool = "MyTopMusic" /\ pc = "validate"
    /\ result = NoResult /\ calls = <<>> /\ playlists = <<>>
    /\ time_range \in TimeRanges
    /\ top_count_arg \in TopCountArgs
    /\ top_count = 0
    /\ create_playlist \in BOOLEAN
    /\ my_top_tracks = <<>> /\ my_top_artists = <<>>
    /\ DeepDiveIdle /\ DiscoverIdle /\ LibrarianIdle /\ ActionIdle /\ ClientIdle /\ FirstCall

NextTopMusic == M_Validate \/ M_Fetch \/ M_Report

SpecTopMusic == InitTopMusic /\ [][NextTopMusic]_vars

(***************************************************************************)
(* Playback, Queue, Playlist, Library (server.py 211-470): one match on    *)
(* arguments.get("action") each                                            *)
(***************************************************************************)
PlaybackActions == {"get", "start", "pause", "skip"}
QueueActions == {"add", "get"}
PlaylistActions == {"get", "get_tracks", "add_tracks", "remove_tracks",
                    "change_details", "create"}
LibraryActions == {"save", "remove", "check"}
ActionTools == {"Playback", "Queue", "Playlist", "Library"}

\* arguments.get("track_ids"): absent, a list, or a str that json.loads turns
\* into a list or rejects
NoIds == [kind |-> "missing", ids |-> <<>>]
IdList(ids) == [kind |-> "list", ids |-> ids]
IdJson(ids) == [kind |-> "json", ids |-> ids]
BadJson == [kind |-> "bad_json", ids |-> <<>>]
TrackIdArgs == {NoIds, IdList(<<>>), IdList(<<"t1">>), IdJson(<<"t1", "t3">>), BadJson}

ArgumentSamples ==
    [action : PlaybackActions \cup QueueActions \cup PlaylistActions
                \cup LibraryActions \cup {"stop", ""},
     track_id : {"", "t1"},
     playlist_id : {0, 1},              \* 0: absent
     track_ids : TrackIdArgs,
     name : {"", "New"},
     description : {"", "text"},
     num_skips : {IntArg(1), NotAnInt}]

\* the playlist the service holds before the call
ExistingPlaylist == [id |-> 1, name |-> "Mix", tracks |-> <<"t1", "t2", "t1">>]

NothingReturned == [kind |-> "nothing"]     \* the handler ends without a return
JsonResult(what) == [kind |-> "json", what |-> what]

\* the handler returns without touching the service's playlists
Respond(issued, res) ==
    /\ calls' = calls \o issued
    /\ result' = res
    /\ playlists' = playlists

\* one collaborator call that raises, or answers and the handler returns res
CallThen(op, res) ==
    \/ Respond(<<Call(op)>>, ErrorResult)
    \/ Respond(<<Call(op)>>, res)

\* isinstance(track_ids, str) and json.loads(track_ids)
IsStr(arg) == arg.kind \in {"json", "bad_json"}
ParseFails(arg) == arg.kind = "bad_json"

ActionCommon(name) ==
    /\ tool = name /\ pc = "call"
    /\ pc' = "done"
    /\ UNCHANGED <<nonAct, tool, arguments>>

\* case "Playback": the match on action has no default case
A_Playback ==
    /\ ActionCommon("Playback")
    /\ CASE arguments.action = "get" ->
              \/ CallThen("get_current_track", JsonResult("curr_track"))
              \/ Respond(<<Call("get_current_track")>>, TextResult("No track playing."))
         [] arguments.action = "start" ->
              CallThen("start_playback", TextResult("Playback starting."))
         [] arguments.action = "pause" ->
              CallThen("pause_playback", TextResult("Playback paused."))
         [] arguments.action = "skip" ->
              IF ~arguments.num_skips.numeric
              THEN Respond(<<>>, ErrorResult)                \* int() raises
              ELSE CallThen("skip_track", TextResult("Skipped to next track."))
         [] OTHER -> Respond(<<>>, NothingReturned)

A_Queue ==
    /\ ActionCommon("Queue")
    /\ CASE arguments.action = "add" ->
              IF arguments.track_id = ""
              THEN Respond(<<>>, TextResult("track_id is required for add action"))
              ELSE CallThen("add_to_queue", TextResult("Track added to queue."))
         [] arguments.action = "get" -> CallThen("get_queue", JsonResult("queue"))
         [] OTHER -> Respond(<<>>, TextResult("Unknown queue action"))

\* sp.playlist_remove_all_occurrences_of_items
RemoveTracks(pls, id, track_ids) ==
    LET kept == {i \in 1..Len(pls[id].tracks) :
                    pls[id].tracks[i] \notin Range(track_ids)}
    IN  [pls EXCEPT ![id].tracks = Select(@, kept)]

\* Client.add_tracks_to_playlist / remove_tracks_from_playlist as called by
\* the Playlist tool: ValueError for a missing playlist id or no track ids;
\* a failure of the service itself is logged and swallowed
ChangeTracks(op, changed) ==
    LET ids == arguments.track_ids.ids
        issued == <<[op |-> op, playlist_id |-> arguments.playlist_id,
                     track_ids |-> ids]>>
    IN  IF arguments.playlist_id = 0 \/ ids = <<>>
        THEN Respond(issued, ErrorResult)
        ELSE /\ calls' = calls \o issued
             /\ \/ playlists' = changed
                \/ playlists' = playlists
             /\ result' = TextResult(op)

A_Playlist ==
    /\ ActionCommon("Playlist")
    /\ LET id == arguments.playlist_id
           ids == arguments.track_ids.ids
           bad_ids == Respond(<<>>, TextResult("track_ids must be a list"))
       IN
       CASE arguments.action = "get" ->
              CallThen("get_current_user_playlists", JsonResult("playlists"))
         [] arguments.action = "get_tracks" ->
              IF id = 0
              THEN Respond(<<>>, TextResult("playlist_id is required"))
              ELSE CallThen("get_playlist_tracks", JsonResult("tracks"))
         [] arguments.action = "add_tracks" ->
              IF IsStr(arguments.track_ids) /\ ParseFails(arguments.track_ids)
              THEN bad_ids
              ELSE ChangeTracks("add_tracks_to_playlist",
                                AddTracks(playlists, id, ids, TRUE))
         [] arguments.action = "remove_tracks" ->
              IF IsStr(arguments.track_ids) /\ ParseFails(arguments.track_ids)
              THEN bad_ids
              ELSE ChangeTracks("remove_tracks_from_playlist",
                                RemoveTracks(playlists, id, ids))
         [] arguments.action = "change_details" ->
              IF id = 0
              THEN Respond(<<>>, TextResult("playlist_id is required"))
              ELSE IF arguments.name = "" /\ arguments.description = ""
              THEN Respond(<<>>, TextResult("name or description is required"))
              ELSE \/ Respond(<<RenameCall(id, arguments.name)>>, ErrorResult)
                   \/ /\ calls' = Append(calls, RenameCall(id, arguments.name))
                      /\ \/ playlists' =
                               IF arguments.name = "" THEN playlists
                               ELSE [playlists EXCEPT ![id].name = arguments.name]
                         \/ playlists' = playlists
                      /\ result' = TextResult("Playlist details changed.")
         [] arguments.action = "create" ->
              IF arguments.name = ""
              THEN Respond(<<>>, TextResult("name is required"))
              ELSE \/ Respond(<<Call("create_playlist")>>, ErrorResult)
                   \/ /\ calls' = Append(calls, Call("create_playlist"))
                      /\ playlists' = CreatePlaylist(playlists, arguments.name)
                      /\ result' = JsonResult("playlist")
         [] OTHER -> Respond(<<>>, TextResult("Unknown playlist action"))

\* case "Library": track_ids is examined before the match on action
A_Library ==
    /\ ActionCommon("Library")
    /\ IF IsStr(arguments.track_ids) /\ ParseFails(arguments.track_ids)
       THEN Respond(<<>>, TextResult("track_ids must be a list"))
       ELSE IF arguments.track_ids.ids = <<>>
       THEN Respond(<<>>, TextResult("track_ids is required"))
       ELSE CASE arguments.action = "save" ->
                   CallThen("save_tracks", TextResult("Saved"))
              [] arguments.action = "remove" ->
                   CallThen("remove_saved_tracks", TextResult("Removed"))
              [] arguments.action = "check" ->
                   CallThen("check_saved_tracks", JsonResult("check_results"))
              [] OTHER -> Respond(<<>>, TextResult("Unknown library action"))

InitActions ==
    /\ tool \in ActionTools /\ pc = "call"
    /\ result = NoResult /\ calls = <<>>
    /\ playlists = <<ExistingPlaylist>>
    /\ arguments \in ArgumentSamples
    /\ DeepDiveIdle /\ DiscoverIdle /\ LibrarianIdle /\ TopMusicIdle /\ ClientIdle /\ FirstCall

NextActions == A_Playback \/ A_Queue \/ A_Playlist \/ A_Library

SpecActions == InitActions /\ [][NextActions]_vars

(***************************************************************************)
(* Client batch lookups (spotify_api.py 420-440): one call of              *)
(* get_artists_for_tracks or get_artists_genres                            *)
(***************************************************************************)
BatchSize == 50          \* range(0, len(ids), 50), ids[i:i+50]
MaxBatches == 2          \* full batches an id list holds at most

BatchTools == {"get_artists_for_tracks", "get_artists_genres"}

\* the id lists looked up: empty, one id, around every multiple of 50, and a
\* list that names an id twice
LookupLens ==
    {0, 1, 2} \cup {k * BatchSize + d : k \in 1..MaxBatches, d \in {0 - 1, 0, 1}}
LookupLists ==
    {[k \in 1..n |-> k] : n \in LookupLens} \cup {<<7, 8, 7>>}

\* ids[i:i+50]
Batch_Short(ids, i) == SubSeq(ids, i + 1, Min(i + BatchSize - 1, Len(ids)))
Batch(ids, i) == SubSeq(ids, i + 1, Min(i + BatchSize, Len(ids)))

BatchCall(op, batch) == [op |-> op, ids |-> batch]
BatchOp == IF tool = "get_artists_for_tracks" THEN "tracks" ELSE "artists"

\* what sp.tracks / sp.artists answer for an id: None for an unknown id
\* (the first `unknown` ids of the batch), a track without artists, a track
\* of some artist, an artist with or without genres
Known(batch, unknown) == SubSeq(batch, unknown + 1, Len(batch))
ArtistOfTrack(id) == id % 3
HasArtists(id) == id % 7 # 0
GenresOfArtist(id) == IF id % 2 = 0 THEN <<"rock">> ELSE <<>>

\* artist_ids.add(t['artists'][0]['id']) for the tracks of a batch
AddArtists(seen, batch) ==
    seen \cup {ArtistOfTrack(batch[k]) : k \in {n \in 1..Len(batch) : HasArtists(batch[n])}}

\* genres[artist['id']] = artist.get('genres', []) for the artists of a batch:
\* a key keeps the place of its first assignment (an id's genres are the same
\* each time it is answered)
AddGenres(dict, batch) ==
    LET fresh == {k \in 1..Len(batch) :
                     /\ DictIndex(dict, batch[k]) = 0
                     /\ \A n \in 1..(k - 1) : batch[n] # batch[k]}
        added == Select(batch, fresh)
    IN  dict \o AsList([k \in 1..Len(added) |->
                          [key |-> added[k], value |-> GenresOfArtist(added[k])]])

ListResult(values) == [kind |-> "values", values |-> values]

\* one iteration of `for i in range(0, len(ids), 50)`
B_Lookup ==
    /\ tool \in BatchTools /\ pc = "batch" /\ batch_start < Len(id_list)
    /\ LET batch == Batch(id_list, batch_start) IN
       \/ /\ calls' = Append(calls, [op |-> BatchOp, ids |-> batch, raised |-> TRUE])
          /\ pc' = "done" /\ result' = ErrorResult
          /\ UNCHANGED <<batch_start, gathered>>
       \/ \E unknown \in {0, 1} :
            /\ unknown <= Len(batch)
            /\ calls' = Append(calls, BatchCall(BatchOp, batch))
            /\ gathered' = IF tool = "get_artists_for_tracks"
                           THEN AddArtists(gathered, Known(batch, unknown))
                           ELSE AddGenres(gathered, Known(batch, unknown))
            /\ batch_start' = batch_start + BatchSize
            /\ UNCHANGED <<pc, result>>
    /\ UNCHANGED <<nonClient, tool, playlists, id_list, offset, page_limit, fetched>>

\* `return list(artist_ids)` / `return genres`
B_Return ==
    /\ tool \in BatchTools /\ pc = "batch" /\ batch_start >= Len(id_list)
    /\ pc' = "done"
    /\ result' = ListResult(gathered)
    /\ UNCHANGED <<nonClient, tool, calls, playlists, clientVars>>

InitBatch ==
    /\ tool \in BatchTools /\ pc = "batch"
    /\ result = NoResult /\ calls = <<>> /\ playlists = <<>>
    /\ id_list \in LookupLists
    /\ batch_start = 0
    /\ gathered = IF tool = "get_artists_for_tracks" THEN {} ELSE <<>>
    /\ offset = 0 /\ page_limit = DefaultPageLimit /\ fetched = <<>>
    /\ FirstCall
    /\ DeepDiveIdle /\ DiscoverIdle /\ LibrarianIdle /\ TopMusicIdle /\ ActionIdle

NextBatch == B_Lookup \/ B_Return

SpecBatch == InitBatch /\ [][NextBatch]_vars

(***************************************************************************)
(* Client pagination (spotify_api.py 385-418): one call of                 *)
(* get_artist_albums or get_all_playlists                                  *)
(***************************************************************************)
MaxPages == 3            \* the service reports no further page at this page at the latest

PageTools == {"get_artist_albums", "get_all_playlists"}
PageLimits == {DefaultPageLimit, 2}
PageOp == IF tool = "get_artist_albums" THEN "artist_albums" ELSE "current_user_playlists"

\* results['items'] of the page at an offset: n items, named by their position
PageItems(at, n) == [j \in 1..n |-> at + j]
PageCall(op, at, lim, items, next) ==
    [op |-> op, offset |-> at, limit |-> lim, items |-> items, next |-> next]

\* `if not results['next']: break`
LastPage_Never(next) == FALSE
LastPage(next) == ~next

\* one iteration of `while True`
P_Page ==
    /\ tool \in PageTools /\ pc = "page" /\ Len(calls) < MaxPages
    /\ \/ /\ calls' = Append(calls, [op |-> PageOp, offset |-> offset,
                                     limit |-> page_limit, raised |-> TRUE])
          /\ pc' = "done" /\ result' = ErrorResult
          /\ UNCHANGED <<offset, fetched>>
       \/ \E n \in {0, 1, page_limit},
             next \in IF Len(calls) + 1 < MaxPages THEN BOOLEAN ELSE {FALSE} :
            LET items == PageItems(offset, n) IN
            /\ calls' = Append(calls, PageCall(PageOp, offset, page_limit, items, next))
            /\ fetched' = fetched \o items
            /\ IF LastPage(next)
               THEN /\ pc' = "done" /\ result' = ListResult(fetched')
                    /\ offset' = offset
               ELSE /\ offset' = offset + page_limit
                    /\ UNCHANGED <<pc, result>>
    /\ UNCHANGED <<nonClient, tool, playlists, id_list, batch_start, gathered,
                   page_limit>>

InitPages ==
    /\ tool \in PageTools /\ pc = "page"
    /\ result = NoResult /\ calls = <<>> /\ playlists = <<>>
    /\ offset = 0 /\ page_limit \in PageLimits /\ fetched = <<>>
    /\ id_list = <<>> /\ batch_start = 0 /\ gathered = <<>>
    /\ FirstCall
    /\ DeepDiveIdle /\ DiscoverIdle /\ LibrarianIdle /\ TopMusicIdle /\ ActionIdle

NextPages == P_Page

\* the loop runs on while its iteration can be taken
SpecPages == InitPages /\ [][NextPages]_vars /\ WF_vars(NextPages)

(***************************************************************************)
(* One call of handle_call_tool to any of the three pipelines that create  *)
(* playlists                                                               *)
(***************************************************************************)
InitPipelines == InitDeepDive \/ InitDiscover \/ InitTopMusic

NextPipelines == NextDeepDive \/ NextDiscover \/ NextTopMusic

SpecPipelines == InitPipelines /\ [][NextPipelines]_vars

(***************************************************************************)
(* Properties                                                              *)
(***************************************************************************)
\* the indices of the collected tracks whose lower-cased name is that of t
SameName(t) ==
    {j \in 1..Len(all_tracks) : Lower(all_tracks[j].name) = Lower(t.name)}

Deduplicated == tool = "ArtistDeepDive" /\ pc = "best_of"

\* C2: after step 4, the deduplicated list holds exactly one entry per distinct
\* lower-cased name of the collected tracks, each entry is one of the collected
\* tracks, and its popularity is >= that of every collected track of that name.
C2_OnePerNameMostPopular ==
    Deduplicated =>
        /\ \A j \in 1..Len(all_tracks) :
             Cardinality({i \in 1..Len(unique_tracks) :
                 Lower(unique_tracks[i].name) = Lower(all_tracks[j].name)}) = 1
        /\ \A i \in 1..Len(unique_tracks) :
             /\ unique_tracks[i] \in Range(all_tracks)
             /\ \A j \in SameName(unique_tracks[i]) :
                  unique_tracks[i].popularity >= all_tracks[j].popularity

\* C2's case: a name collected in several spellings with different popularities,
\* next to another name
C2_Witness ==
    /\ Deduplicated
    /\ Len(unique_tracks) >= 2
    /\ \E j, k \in 1..Len(all_tracks) :
         /\ all_tracks[j].name # all_tracks[k].name
         /\ Lower(all_tracks[j].name) = Lower(all_tracks[k].name)
         /\ all_tracks[j].popularity < all_tracks[k].popularity

\* C3: among the collected tracks of one lower-cased name that have the highest
\* popularity, the one kept is the first in the collected sequence.
C3_FirstSeenWinsTies ==
    Deduplicated =>
        \A i \in 1..Len(unique_tracks) :
            LET same == SameName(unique_tracks[i])
                best == {j \in same : \A k \in same :
                            all_tracks[j].popularity >= all_tracks[k].popularity}
                first == CHOOSE j \in best : \A k \in best : j <= k
            IN  unique_tracks[i].id = all_tracks[first].id

\* C3's case: two tracks of one name tie at the highest popularity, after a less
\* popular one of that name was seen first
C3_Witness ==
    /\ Deduplicated
    /\ \E j, k, l \in 1..Len(all_tracks) :
         /\ j < k /\ k < l
         /\ SameName(all_tracks[j]) = SameName(all_tracks[l])
         /\ SameName(all_tracks[k]) = SameName(all_tracks[l])
         /\ all_tracks[j].popularity < all_tracks[k].popularity
         /\ all_tracks[k].popularity = all_tracks[l].popularity
         /\ \E i \in 1..Len(unique_tracks) : unique_tracks[i].id = all_tracks[k].id

\* the ids handed to add_tracks_to_playlist for playlist id, all chunks in order
AddCalls(id) ==
    Select(calls, {i \in 1..Len(calls) :
                      /\ calls[i].op = "add_tracks_to_playlist"
                      /\ calls[i].playlist_id = id})
RECURSIVE Concat(_, _)
Concat(chunks, k) ==
    IF k > Len(chunks) THEN <<>> ELSE chunks[k].track_ids \o Concat(chunks, k + 1)
Submitted(id) == Concat(AddCalls(id), 1)

\* ArtistDeepDive creates "Best of", "Deep Cuts", "Through the Years" in this order
BestOfId == 1
DeepCutsId == 2
ChronoId == 3

\* C6: the ids put in "Best of" and the ids put in "Deep Cuts" are disjoint, as
\* lists of the handler, as ids submitted, and as contents of the playlists.
C6_BestOfDeepCutsDisjoint ==
    tool = "ArtistDeepDive" =>
        /\ Range(Ids(best_of_tracks)) \cap Range(Ids(deep_cuts)) = {}
        /\ Range(Submitted(BestOfId)) \cap Range(Submitted(DeepCutsId)) = {}
        /\ Len(playlists) >= DeepCutsId =>
             Range(playlists[BestOfId].tracks)
                \cap Range(playlists[DeepCutsId].tracks) = {}

\* C6's case: both playlists were filled, and a "Best of" track is an album track
\* below the threshold, so that only the id test keeps it out of "Deep Cuts"
C6_Witness ==
    /\ tool = "ArtistDeepDive" /\ pc = "done" /\ result.kind = "json"
    /\ playlists[BestOfId].tracks # <<>>
    /\ playlists[DeepCutsId].tracks # <<>>
    /\ \E i \in 1..Len(best_of_tracks) :
         /\ best_of_tracks[i].popularity < deep_cuts_threshold
         /\ best_of_tracks[i].album_type = "album"

\* the deduplicated track of an id
TrackOf(id) == CHOOSE t \in Range(unique_tracks) : t.id = id

\* C7: when the run returns its result, the ids submitted for "Through the
\* Years", chunk after chunk, are the ids of the deduplicated tracks, each exactly
\* once, in ascending release_date order, and no chunk holds more than 100 ids.
C7_ChronoComplete ==
    (tool = "ArtistDeepDive" /\ pc = "done" /\ result.kind = "json") =>
        LET chunks == AddCalls(ChronoId)
            ids == Submitted(ChronoId)
        IN  /\ \A k \in 1..Len(chunks) :
                 Len(chunks[k].track_ids) \in 1..100
            /\ Len(ids) = Len(unique_tracks)
            /\ \A i \in 1..Len(unique_tracks) :
                 Cardinality({k \in 1..Len(ids) : ids[k] = unique_tracks[i].id}) = 1
            /\ \A k \in 1..(Len(ids) - 1) :
                 ~StrLess(TrackOf(ids[k + 1]).release_date,
                          TrackOf(ids[k]).release_date)

\* C7's case: more than 100 deduplicated tracks, submitted in several chunks
C7_Witness ==
    /\ tool = "ArtistDeepDive" /\ pc = "done" /\ result.kind = "json"
    /\ Len(unique_tracks) > 100
    /\ Len(AddCalls(ChronoId)) >= 2

(***************************************************************************)
(* Discover                                                                *)
(***************************************************************************)
CallsOf(op) == {i \in 1..Len(calls) : calls[i].op = op}

\* ids that the genre searches, and the top-artist lookups, put before the filter
OfferedByGenreSearch == UNION {Range(calls[i].ids) : i \in CallsOf("search_by_genre")}
OfferedByTopArtists ==
    UNION {Range(Take(calls[i].ids, TopTrackLimit)) :
              i \in CallsOf("get_artist_top_tracks")}

Returned == tool = "Discover" /\ pc = "done" /\ result.kind = "json"

\* C1: no id of the exclusion set built in step 2 is among the candidates, in
\* the returned recommendation list or in the created playlist, whichever
\* stage the candidate came from.
C1_NoExcludedRecommended ==
    tool = "Discover" =>
        /\ Range(Ids(recommendations)) \cap exclude_ids = {}
        /\ result.kind = "json" =>
              Range(Ids(result.recommendations)) \cap exclude_ids = {}
        /\ \A p \in 1..Len(playlists) :
              Range(playlists[p].tracks) \cap exclude_ids = {}

\* an excluded id was offered by a genre search and by a top-artist lookup, and
\* a non-empty list was returned
C1_Witness ==
    /\ Returned
    /\ result.recommendations # <<>>
    /\ exclude_ids \cap OfferedByGenreSearch # {}
    /\ exclude_ids \cap OfferedByTopArtists # {}
    /\ \E i \in 1..Len(recommendations) :
          recommendations[i].source_genre = "top_artist_match"

Distance(popularity, seed) ==
    IF popularity >= seed THEN popularity - seed ELSE seed - popularity

PositionOf(recs, id) == CHOOSE k \in 1..Len(recs) : recs[k].id = id

\* C4: the ranking step leaves the list, and the list it returns, in ascending
\* order of |popularity - seed_popularity|, and two entries at the same
\* distance stay in the order in which they were accepted as candidates.
C4_RankedByDistance ==
    [][(tool = "Discover" /\ pc = "rank") =>
        LET accepted == recommendations
            ranked == recommendations'
            returned == IF result'.kind = "json" THEN result'.recommendations
                        ELSE <<>>
        IN  /\ \A i \in 1..(Len(ranked) - 1) :
                  Distance(ranked[i].popularity, seed_popularity)
                     <= Distance(ranked[i + 1].popularity, seed_popularity)
            /\ \A i \in 1..(Len(returned) - 1) :
                  Distance(returned[i].popularity, seed_popularity)
                     <= Distance(returned[i + 1].popularity, seed_popularity)
            /\ \A i, j \in 1..Len(ranked) :
                  (/\ i < j
                   /\ Distance(ranked[i].popularity, seed_popularity)
                        = Distance(ranked[j].popularity, seed_popularity))
                  => PositionOf(accepted, ranked[i].id)
                        < PositionOf(accepted, ranked[j].id)
            /\ result'.kind = "json" => Ids(returned) = Ids(ranked)]_vars

\* a returned list in which the sort moved a stage 4 candidate ahead of a
\* stage 3 candidate, and which holds two entries of different popularity at
\* the same distance
C4_Witness ==
    /\ Returned
    /\ \E i, j \in 1..Len(recommendations) :
          /\ i < j
          /\ recommendations[i].source_genre = "top_artist_match"
          /\ recommendations[j].source_genre # "top_artist_match"
          /\ Distance(recommendations[i].popularity, seed_popularity)
                < Distance(recommendations[j].popularity, seed_popularity)
    /\ \E i, j \in 1..Len(recommendations) :
          /\ i < j
          /\ recommendations[i].popularity # recommendations[j].popularity
          /\ Distance(recommendations[i].popularity, seed_popularity)
                = Distance(recommendations[j].popularity, seed_popularity)

GenreSourced(artist_id) ==
    {i \in 1..Len(recommendations) :
        /\ recommendations[i].source_genre # "top_artist_match"
        /\ recommendations[i].artist_id = artist_id}

\* C5: over all the seed genres of one invocation, at most 3 candidates
\* accepted from genre search have the same primary artist.
C5_ArtistCap ==
    tool = "Discover" =>
        \A a \in ArtistIds : Cardinality(GenreSourced(a)) <= 3

\* the genre searches offered a 4th track of an artist, not excluded, and it
\* was dropped while 3 tracks of that artist were accepted
C5_Witness ==
    /\ tool = "Discover" /\ pc = "rank"
    /\ \E a \in ArtistIds :
          /\ Cardinality(GenreSourced(a)) = 3
          /\ \E id \in OfferedByGenreSearch \ exclude_ids :
                /\ PrimaryArtistId(CatalogTracks[id]) = a
                /\ id \notin Range(Ids(recommendations))

(***************************************************************************)
(* PlaylistLibrarian                                                       *)
(***************************************************************************)
\* no tag of the list contains a keyword of any category
NoTagMatches(genres) ==
    \A i \in 1..Len(genres) : \A c \in 1..Len(GENRE_CATEGORIES) :
        \A k \in 1..Len(GENRE_CATEGORIES[c].keywords) :
            ~Contains(GENRE_CATEGORIES[c].keywords[k], AsList(Lower(genres[i])))

\* C8: scoring an empty tag list, or one in which no tag contains a keyword of
\* any category, leaves no category and score 0; the playlist is counted as
\* skipped, gets no change record and no rename call, and keeps its name.
C8_NoMatchIsSkipped ==
    [][(tool = "PlaylistLibrarian" /\ pc = "score" /\ NoTagMatches(all_genres)) =>
          /\ best_category' = NoCategory
          /\ best_score' = 0
          /\ skipped' = skipped + 1
          /\ changes' = changes
          /\ category_counts' = category_counts
          /\ calls' = calls
          /\ playlists' = playlists]_vars

GenreAnswerCalls ==
    {i \in CallsOf("get_artists_genres") : ~calls[i].raised}

\* a run that scored an empty tag list and a non-empty one without a match,
\* and returned both playlists as skipped
C8_Witness ==
    /\ tool = "PlaylistLibrarian" /\ pc = "done" /\ result.kind = "json"
    /\ \E i, j \in GenreAnswerCalls :
          /\ Flatten(calls[i].values, 1) = <<>>
          /\ Flatten(calls[j].values, 1) # <<>>
          /\ NoTagMatches(Flatten(calls[j].values, 1))
    /\ result.playlists_skipped = 2
    /\ result.changes = <<>>
    /\ best_category = NoCategory

\* the list is not empty and each of its tags is a keyword of category c
KeywordsOnly(genres, c) ==
    /\ genres # <<>>
    /\ Range(genres) \subseteq Range(GENRE_CATEGORIES[c].keywords)

\* C9: a non-empty tag list made up only of keywords of a category C yields
\* best category C, with score the number of tags.
C9_KeywordsOfCategoryWin ==
    (tool = "PlaylistLibrarian" /\ pc \in {"result", "done"} /\ owned # <<>>) =>
        \A c \in 1..Len(GENRE_CATEGORIES) :
            KeywordsOnly(all_genres, c) =>
                /\ best_category = GENRE_CATEGORIES[c].label
                /\ best_score = Len(all_genres)

\* the name starts with one of the category labels
LabelPrefixed(name) ==
    \E c \in 1..Len(GENRE_CATEGORIES) :
        LET label == GENRE_CATEGORIES[c].label
        IN  Len(label) <= Len(name) /\ \A i \in 1..Len(label) : name[i] = label[i]

\* C10: the iteration for an owned playlist whose name starts with a category
\* label issues no call at all, adds 1 to skipped, records no change and
\* leaves every playlist name as it is.
C10_CategorizedIsSkipped ==
    [][(/\ tool = "PlaylistLibrarian" /\ pc = "playlist"
        /\ LabelPrefixed(owned[playlist_idx].name)) =>
          /\ calls' = calls
          /\ skipped' = skipped + 1
          /\ changes' = changes
          /\ category_counts' = category_counts
          /\ playlists' = playlists
          /\ playlist_idx' = playlist_idx + 1]_vars

\* a finished run over a library with a labelled playlist, longer than the
\* label, for which no call was issued, next to a playlist that was analysed
C10_Witness ==
    /\ tool = "PlaylistLibrarian" /\ pc = "done" /\ result.kind = "json"
    /\ result.playlists_skipped >= 1
    /\ \E k \in 1..Len(owned) :
          /\ LabelPrefixed(owned[k].name)
          /\ ~AlreadyCategorized_Exact(owned[k].name)
          /\ \A i \in CallsOf("get_playlist_tracks") \cup CallsOf("change_playlist_details") :
                calls[i].playlist_id # owned[k].id
          /\ \A i \in 1..Len(result.changes) :
                result.changes[i].playlist_id # owned[k].id
    /\ CallsOf("get_artists_genres") # {}

RenameCalls == CallsOf("change_playlist_details")

\* C11: with dry_run = true no change_playlist_details call is issued, and
\* every change record, collected or returned, has applied = false.
C11_DryRunAppliesNothing ==
    (tool = "PlaylistLibrarian" /\ dry_run) =>
        /\ RenameCalls = {}
        /\ \A i \in 1..Len(changes) : ~changes[i].applied
        /\ result.kind = "json" =>
              \A i \in 1..Len(result.changes) : ~result.changes[i].applied

\* a dry run that returned two proposed changes
C11_Witness ==
    /\ tool = "PlaylistLibrarian" /\ pc = "done" /\ result.kind = "json"
    /\ dry_run /\ result.dry_run
    /\ Len(result.changes) = 2
    /\ result.changes[1].new_name # result.changes[1].original_name

(***************************************************************************)
(* Input validation and failures                                           *)
(***************************************************************************)
InvalidDiscover ==
    /\ tool = "Discover"
    /\ \/ seed_type \notin {"artist", "track", "listening_history"}
       \/ seed_type \in {"artist", "track"} /\ seed_value = ""

InvalidTopMusic ==
    /\ tool = "MyTopMusic"
    /\ time_range \notin {"short_term", "medium_term", "long_term"}

\* C12: a Discover call with an unsupported seed_type, or with seed type artist
\* or track and no seed_value, and a MyTopMusic call with an unsupported
\* time_range, never issue a collaborator call and never create a playlist, and
\* what they return is a message.
C12_InvalidInputIsRejected ==
    (InvalidDiscover \/ InvalidTopMusic) =>
        /\ calls = <<>>
        /\ playlists = <<>>
        /\ pc \in {"validate", "done"}
        /\ pc = "done" => result.kind \in {"text", "error"}
        /\ (pc = "done" /\ tool = "Discover") => result.kind = "text"
        /\ (pc = "done" /\ tool = "MyTopMusic" /\ top_count_arg.numeric) =>
              result = TextResult("invalid_time_range")

\* a MyTopMusic call with a time_range that is no period was answered
C12_Witness ==
    /\ InvalidTopMusic /\ pc = "done"
    /\ time_range = "all_time" /\ create_playlist
    /\ result = TextResult("invalid_time_range")

Supported(name) ==
    CASE name = "Playback" -> {"get", "start", "pause", "skip"}
      [] name = "Queue" -> {"add", "get"}
      [] name = "Playlist" -> {"get", "get_tracks", "add_tracks", "remove_tracks",
                               "change_details", "create"}
      [] name = "Library" -> {"save", "remove", "check"}

\* C13: Playback, Queue, Playlist and Library, called with an action outside
\* the tool's supported set, return a message and issue no collaborator call.
C13_UnknownActionIsReported ==
    (/\ tool \in {"Playback", "Queue", "Playlist", "Library"}
     /\ arguments.action \notin Supported(tool)
     /\ pc = "done") =>
        /\ result.kind = "text"
        /\ calls = <<>>

HasRaised(call) == "raised" \in DOMAIN call /\ call.raised

RequiredOps(name) ==
    CASE name = "ArtistDeepDive" -> {"search", "get_artist_albums"}
      [] name = "Discover" -> {"search", "get_track", "get_artist", "get_top_artists"}
      [] name = "MyTopMusic" -> {"get_top_tracks", "get_top_artists"}
      [] OTHER -> {}

RequiredFailures ==
    {i \in 1..Len(calls) : HasRaised(calls[i]) /\ calls[i].op \in RequiredOps(tool)}

\* C14: when a call of a required step raises (artist search or album listing
\* in ArtistDeepDive, the seed calls in Discover, the two fetches in
\* MyTopMusic), it is the last call the pipeline makes, the pipeline has
\* finished with the failure message, and no playlist exists.
C14_RequiredFailureStops ==
    \A i \in RequiredFailures :
        /\ i = Len(calls)
        /\ pc = "done"
        /\ result = ErrorResult
        /\ playlists = <<>>

C14_Witness ==
    /\ tool = "Discover"
    /\ create_playlist_flag
    /\ Len(calls) = 2
    /\ RequiredFailures = {2}
    /\ pc = "done"

AlbumFailures ==
    {i \in 1..Len(calls) : /\ HasRaised(calls[i])
                           /\ calls[i].op \in {"get_album_tracks_full", "get_track"}}

CreateFailures == {i \in CallsOf("create_playlist") : HasRaised(calls[i])}

\* C15: in ArtistDeepDive, once a call for an album's track list or for one
\* of its tracks has raised, the run is still going on: every album up to
\* the loop position has had its track list requested, after the loop every
\* album has, and the run that ends without a playlist creation raising
\* ends with the three playlists created and reported.
C15_AlbumErrorsNeverAbort ==
    (tool = "ArtistDeepDive" /\ AlbumFailures # {}) =>
        /\ Cardinality(CallsOf("get_album_tracks_full")) = album_idx - 1
        /\ pc = "collect" => result = NoResult
        /\ pc # "collect" => album_idx = Len(albums) + 1
        /\ (pc = "done" /\ CreateFailures = {}) =>
              /\ result.kind = "json"
              /\ Len(result.playlists_created) = 3
              /\ Len(playlists) = 3

C15_Witness ==
    /\ tool = "ArtistDeepDive" /\ pc = "done"
    /\ Len(albums) = 2
    /\ \E i \in AlbumFailures : i < Len(calls) /\ calls[i + 1].op = "get_album_tracks_full"
    /\ result.kind = "json"
    /\ Len(playlists) = 3
    /\ playlists[3].tracks # <<>>

ExclusionFailures ==
    {i \in 1..Len(calls) :
        /\ HasRaised(calls[i])
        /\ calls[i].op \in {"get_recent_track_ids", "get_user_saved_track_ids"}}

\* C16: in Discover, when the fetch of the recent-play ids or of the
\* saved-library ids has raised, the pipeline has gone on to candidate
\* generation and the exclusion set it filters with is empty.
C16_ExclusionErrorGivesEmptySet ==
    (tool = "Discover" /\ ExclusionFailures # {}) =>
        /\ pc # "exclude"
        /\ exclude_ids = {}

\* seed resolution ran to its end (every seed call answered, the artist was
\* found) and derived no genre
NoGenresDerived ==
    /\ tool = "Discover" /\ pc \notin {"validate", "seed"}
    /\ calls # <<>> /\ RequiredFailures = {}
    /\ ~(seed_type = "artist" /\ Len(calls) = 1)
    /\ seed_genres = <<>>

LaterStageOps ==
    {"get_recent_track_ids", "get_user_saved_track_ids", "search_by_genre",
     "get_artist_top_tracks", "create_playlist", "add_tracks_to_playlist"}

\* C17: in Discover, when seed resolution derives no genres the pipeline has
\* finished with the empty-result message, and the call log holds the seed
\* calls only: no exclusion fetch, no genre search, no top-artist
\* augmentation, no playlist creation.
C17_NoGenresStopsPipeline ==
    NoGenresDerived =>
        /\ pc = "done"
        /\ result = TextResult("no_genres")
        /\ playlists = <<>>
        /\ \A i \in 1..Len(calls) : calls[i].op \notin LaterStageOps
        /\ seed_type # "listening_history" => CallsOf("get_top_artists") = {}
        /\ Cardinality(CallsOf("get_top_artists")) <= 1

C17_Witness ==
    /\ NoGenresDerived
    /\ seed_type = "track" /\ create_playlist_flag
    /\ Len(calls) = 2 /\ calls[2].op = "get_artist"
    /\ pc = "done"

EntriesAllowed == IF Min(limit, MaxLimit) < 0 THEN 0 ELSE Min(limit, MaxLimit)

\* C18: for every value of the limit argument the recommendation list
\* Discover returns has at most min(limit, 50) entries (none when that is
\* negative), never more than 50, and the count field is the length of the
\* list.
C18_TruncatedToLimit ==
    (tool = "Discover" /\ pc = "done" /\ result.kind = "json") =>
        /\ Len(result.recommendations) <= EntriesAllowed
        /\ Len(result.recommendations) <= MaxLimit
        /\ result.count = Len(result.recommendations)

InRange(records) == \A i \in 1..Len(records) : records[i].popularity \in 0..100

\* C19: every popularity ArtistDeepDive sorts by and every popularity
\* Discover ranks by lies in 0..100, whatever the collaborator answered.
C19_PopularityInRange ==
    /\ InRange(all_tracks) /\ InRange(unique_tracks)
    /\ InRange(best_of_tracks) /\ InRange(deep_cuts) /\ InRange(chronological)
    /\ InRange(recommendations)

CategoryScores ==
    AsList([c \in 1..Len(GENRE_CATEGORIES) |->
               CategoryScore(all_genres, GENRE_CATEGORIES[c].keywords)])

TopOf(scores) == CHOOSE n \in Range(scores) : \A c \in 1..Len(scores) : scores[c] <= n

FirstAt(scores, n) ==
    CHOOSE c \in 1..Len(scores) :
        scores[c] = n /\ \A d \in 1..(c - 1) : scores[d] < n

\* C20: when the highest category score of a tag list is positive, scoring
\* yields the first category of the taxonomy, in its iteration order, that
\* reaches it; a later category with the same score does not replace it.
C20_FirstCategoryWinsTies ==
    [][(tool = "PlaylistLibrarian" /\ pc = "score") =>
          LET scores == CategoryScores
              top == TopOf(scores)
          IN  top > 0 =>
                /\ best_category' = GENRE_CATEGORIES[FirstAt(scores, top)].label
                /\ best_score' = top]_vars

\* a tag list scored with two or more categories tied at the top
C20_Witness ==
    /\ tool = "PlaylistLibrarian" /\ pc # "score" /\ playlist_idx = 2
    /\ changes # <<>>
    /\ LET scores == CategoryScores
           top == TopOf(scores)
       IN  /\ top > 0
           /\ Cardinality({c \in 1..Len(scores) : scores[c] = top}) >= 2
           /\ best_category = GENRE_CATEGORIES[FirstAt(scores, top)].label

RECURSIVE ConcatIds(_, _)
ConcatIds(issued, k) ==
    IF k > Len(issued) THEN <<>> ELSE issued[k].ids \o ConcatIds(issued, k + 1)

\* C21: in a batch lookup every bulk call carries between 1 and 50 ids, the
\* calls issued so far carry, put end to end, the ids of the input list up
\* to the last one asked for (consecutive slices in input order), and when
\* the lookup returns they carry exactly the input list; an empty list
\* issues no call.
C21_BatchesCoverInput ==
    tool \in BatchTools =>
        /\ \A k \in 1..Len(calls) : Len(calls[k].ids) \in 1..BatchSize
        /\ ConcatIds(calls, 1) = SubSeq(id_list, 1, Len(ConcatIds(calls, 1)))
        /\ \A k \in 1..(Len(calls) - 1) : Len(calls[k].ids) = BatchSize
        /\ (pc = "done" /\ result # ErrorResult) => ConcatIds(calls, 1) = id_list
        /\ id_list = <<>> => calls = <<>>

C21_Witness ==
    /\ tool = "get_artists_genres" /\ pc = "done" /\ result # ErrorResult
    /\ Len(id_list) = 2 * BatchSize + 1
    /\ Len(calls) = 3
    /\ Len(calls[3].ids) = 1

Answered(k) == ~HasRaised(calls[k])

RECURSIVE ConcatItems(_, _)
ConcatItems(issued, k) ==
    IF k > Len(issued) THEN <<>>
    ELSE (IF HasRaised(issued[k]) THEN <<>> ELSE issued[k].items)
            \o ConcatItems(issued, k + 1)

PagesInOrder ==
    tool \in PageTools =>
        /\ \A k \in 1..Len(calls) : calls[k].offset = (k - 1) * page_limit
        /\ fetched = ConcatItems(calls, 1)
        /\ \A k \in 1..Len(calls) :
              (Answered(k) /\ ~calls[k].next) =>
                  k = Len(calls) /\ pc = "done" /\ result = ListResult(fetched)
        /\ (pc = "done" /\ result # ErrorResult) => ~calls[Len(calls)].next

\* C22: pagination asks for the pages at offsets 0, limit, 2*limit, ...,
\* gathers the items in call order, stops right after the first page that
\* reports no further page and issues no call after it; as the service
\* eventually reports no further page, the loop terminates.
C22_PaginationStopsAtLastPage ==
    /\ []PagesInOrder
    /\ (tool \in PageTools) => <>(pc = "done")

C22_Witness ==
    /\ tool = "get_all_playlists" /\ pc = "done" /\ result # ErrorResult
    /\ Len(calls) = 3
    /\ calls[3].offset = 2 * page_limit
    /\ Len(fetched) > page_limit

\* the deduplicated tracks that pass the Deep Cuts filter and are not in the list
LeftOut ==
    {t \in Range(unique_tracks) :
        /\ t.popularity < deep_cuts_threshold
        /\ t.album_type = "album"
        /\ t.id \notin Range(Ids(best_of_tracks))
        /\ t.id \notin Range(Ids(deep_cuts))}

\* step 6 has run: the second create_playlist call is the one of "Deep Cuts"
DeepCutsComputed ==
    \/ pc = "chrono"
    \/ pc = "done" /\ Cardinality(CallsOf("create_playlist")) >= 2

ReportedTags == AllGenres(SliceTo(my_top_artists, top_count), 1)

\* the first whitespace-delimited token of a tag ("other" for the empty tag)
Bucket(tag) ==
    IF tag = <<>> THEN Word_Other
    ELSE LET blanks == {i \in 1..Len(tag) : tag[i] = " "}
         IN  IF blanks = {} THEN tag
             ELSE SubSeq(tag, 1, (CHOOSE i \in blanks : \A j \in blanks : i <= j) - 1)

Buckets == {Bucket(ReportedTags[i]) : i \in 1..Len(ReportedTags)}
BucketCount(b) ==
    Cardinality({i \in 1..Len(ReportedTags) : Bucket(ReportedTags[i]) = b})
FirstSeen(b) ==
    CHOOSE i \in 1..Len(ReportedTags) :
        Bucket(ReportedTags[i]) = b /\ \A j \in 1..(i - 1) : Bucket(ReportedTags[j]) # b

\* bucket a goes before bucket b: more occurrences, or as many and met earlier
Before(a, b) ==
    \/ BucketCount(a) > BucketCount(b)
    \/ BucketCount(a) = BucketCount(b) /\ FirstSeen(a) < FirstSeen(b)

\* v is n / d rounded to a nearest integer
Nearest(v, n, d) == 2 * Abs(v * d - n) <= d

\* C24: the genre breakdown MyTopMusic returns holds the buckets (first
\* whitespace-delimited tokens) with the highest counts, at most 5 of them,
\* ties going to the bucket met first; each value is the bucket's count as a
\* rounded percentage of the number of tag occurrences; the tags lo-fi,
\* lo-fi, house give lo-fi 67 and house 33.
C24_GenreBreakdownTopFive ==
    (tool = "MyTopMusic" /\ pc = "done" /\ result.kind = "json") =>
        LET shown == result.genre_breakdown IN
        /\ Len(shown) = Min(BreakdownLimit, Cardinality(Buckets))
        /\ \A i \in 1..Len(shown) :
              /\ shown[i].key \in Buckets
              /\ Nearest(shown[i].value, BucketCount(shown[i].key) * 100,
                         Len(ReportedTags))
              /\ \A j \in (i + 1)..Len(shown) : Before(shown[i].key, shown[j].key)
              /\ \A b \in Buckets \ {shown[k].key : k \in 1..Len(shown)} :
                    Before(shown[i].key, b)
        /\ ReportedTags = <<Tag_LoFi, Tag_LoFi, Tag_House>> =>
              shown = <<[key |-> Tag_LoFi, value |-> 67],
                        [key |-> Tag_House, value |-> 33]>>

\* six buckets: one is dropped, and it has as many occurrences as one kept
C24_Witness ==
    /\ tool = "MyTopMusic" /\ pc = "done" /\ result.kind = "json"
    /\ Cardinality(Buckets) > BreakdownLimit
    /\ Len(result.genre_breakdown) = BreakdownLimit
    /\ \E b \in Buckets \ {result.genre_breakdown[k].key : k \in 1..BreakdownLimit} :
          BucketCount(b) = BucketCount(result.genre_breakdown[BreakdownLimit].key)
    /\ BucketCount(result.genre_breakdown[1].key) = BucketCount(result.genre_breakdown[2].key)

\* the documented example
C24_Example ==
    /\ tool = "MyTopMusic" /\ pc = "done" /\ result.kind = "json"
    /\ ReportedTags = <<Tag_LoFi, Tag_LoFi, Tag_House>>

NoRepeat(ids) == \A i \in 1..Len(ids) : \A j \in 1..Len(ids) : ids[i] = ids[j] => i = j

\* C25: no track id is twice in Discover's recommendation list, neither
\* while it is built nor in the result returned, even when a track was
\* answered by several genre searches or by a genre search and by a similar
\* top artist's top tracks.
C25_NoDuplicateRecommendation ==
    tool = "Discover" =>
        /\ NoRepeat(Ids(recommendations))
        /\ (pc = "done" /\ result.kind = "json") =>
              NoRepeat(Ids(result.recommendations))

\* a returned track that two genre searches and a top artist all answered
C25_Witness ==
    /\ Returned
    /\ \E id \in Range(Ids(result.recommendations)) :
          /\ id \in OfferedByTopArtists
          /\ Cardinality({i \in CallsOf("search_by_genre") : id \in Range(calls[i].ids)}) >= 2

\* C26: a second PlaylistLibrarian call with dry_run = false and the same
\* category_style, after a call in which every rename succeeded, issues no
\* rename call for a playlist the first call renamed and proposes no change
\* for it.
C26_SecondRunChangesNothing ==
    (tool = "PlaylistLibrarian" /\ invocation = 2) =>
        /\ \A i \in RenameCalls : calls[i].playlist_id \notin first_renamed
        /\ \A k \in 1..Len(changes) : changes[k].playlist_id \notin first_renamed

\* C27: the result PlaylistLibrarian returns satisfies playlists_analyzed =
\* playlists_categorized + playlists_skipped, and the values of its
\* category_summary add up to playlists_categorized, whatever calls failed
\* for which playlist.
C27_AccountingAddsUp ==
    (tool = "PlaylistLibrarian" /\ pc = "done" /\ result.kind = "json") =>
        /\ result.playlists_analyzed = Len(owned)
        /\ result.playlists_analyzed =
              result.playlists_categorized + result.playlists_skipped
        /\ SumValues(result.category_summary, 1) = result.playlists_categorized

\* a playlist categorized and one skipped because a call for it raised
C27_Witness ==
    /\ tool = "PlaylistLibrarian" /\ pc = "done" /\ result.kind = "json"
    /\ invocation = 1
    /\ result.playlists_categorized >= 1
    /\ result.playlists_skipped >= 1
    /\ \E i \in CallsOf("get_artists_genres") : calls[i].raised

\* C28: a change record of PlaylistLibrarian reports applied = true only if
\* the catalog service accepted the rename, i.e. the playlist now carries
\* the new name.
C28_AppliedMeansRenamed ==
    tool = "PlaylistLibrarian" =>
        \A k \in 1..Len(changes) :
            changes[k].applied =>
                playlists[changes[k].playlist_id].name = changes[k].new_name

\* the number of tracks the catalog service holds in a playlist
Holds(id) == Len(playlists[id].tracks)

\* C29: when ArtistDeepDive, MyTopMusic or Discover returns a success
\* result, the track_count it reports for each playlist it created is the
\* number of tracks the catalog service accepted into that playlist.
C29_TrackCountIsAccepted ==
    (pc = "done" /\ result.kind = "json") =>
        CASE tool = "ArtistDeepDive" ->
               \A k \in 1..Len(result.playlists_created) :
                   result.playlists_created[k].track_count
                      = Holds(result.playlists_created[k].id)
          [] tool \in {"Discover", "MyTopMusic"} ->
               result.playlist_created => result.track_count = Holds(Len(playlists))
          [] OTHER -> TRUE

\* the albums for one of whose tracks get_track raised
FailedAlbums ==
    {calls[i].id[1] : i \in {k \in AlbumFailures : calls[k].op = "get_track"}}

\* C30: in ArtistDeepDive an album whose processing raised contributes no
\* track: none of its tracks is among the collected tracks, the
\* deduplicated tracks or the tracks of the three lists.
C30_FailedAlbumContributesNothing ==
    tool = "ArtistDeepDive" =>
        \A t \in Range(all_tracks) \cup Range(unique_tracks) \cup Range(chronological) :
            t.id[1] \notin FailedAlbums

====
